---- MODULE Spec2Model ----
(***************************************************************************)
(* Model of the NEPSE credential manager (auth/token.go): the Manager's    *)
(* cached CredentialState behind its RWMutex, the singleflight-            *)
(* deduplicated update cycle, index derivation through the embedded        *)
(* bytecode functions and token reconstruction (sliceSkipAt).              *)
(*                                                                         *)
(* Strings are sequences of one-character strings; the empty string is     *)
(* << >>.  Times are integers in milliseconds; ZeroTime stands for Go's    *)
(* zero time.Time.                                                         *)
(***************************************************************************)
EXTENDS Integers, Sequences, FiniteSets, TLC

\* ------------------------------------------------------------------ bounds
\* Longest raw token given to sliceSkipAt on its own.
MaxStr == 3
\* Largest salt given to indicesFromSalts on its own.
MaxSalt == 2
\* Number of concurrent callers (goroutines) of one Manager.
NumProcs == 2
\* Total number of AccessToken / RefreshToken / ForceUpdate calls in a run.
MaxOps == 2
\* Number of clock advances in a run.
MaxTicks == 2
MaxCloses == 3
MaxRetriesSmall == 2
MaxRetriesLong == 36
MaxSecurities == 3

\* ------------------------------------------------------- program constants
\* m.maxUpdatePeriod = 45 * time.Second, in milliseconds.
maxUpdatePeriod == 45000
\* parseResponse: sec := tr.ServerTime / 1000.
MsPerSec == 1000

Procs == 1..NumProcs
None == 0
ZeroTime == -1
\* The local clock at Manager construction (ms); large enough for a server
\* clock that runs a whole validity window behind to stay positive.
StartClock == 100000
\* One clock advance: the validity window is MaxTicks advances long.
TickMs == maxUpdatePeriod \div MaxTicks

\* ------------------------------------------------------ token reconstruction
\* The insertion sort of sliceSkipAt: element x is moved left past every
\* larger element of the already sorted prefix.
RECURSIVE InsertSorted(_, _)
InsertSorted(sorted, x) ==
    IF sorted = << >> THEN << x >>
    ELSE IF sorted[Len(sorted)] > x
         THEN Append(InsertSorted(SubSeq(sorted, 1, Len(sorted) - 1), x),
                     sorted[Len(sorted)])
         ELSE Append(sorted, x)

RECURSIVE SortAscending(_)
SortAscending(ps) ==
    IF ps = << >> THEN << >>
    ELSE InsertSorted(SortAscending(SubSeq(ps, 1, Len(ps) - 1)), ps[Len(ps)])

\* Go's b[lo:hi] on a byte slice b (0-based, hi exclusive).
GoSlice(b, lo, hi) == SubSeq(b, lo + 1, hi)

\* The copy loop of sliceSkipAt over the sorted positions ps[k..]:
\* out accumulates the kept bytes, prev is the next byte to copy.
\* b[prev:p] with prev > p is a run-time panic (slice bounds out of range).
RECURSIVE SkipLoop(_, _, _, _, _)
SkipLoop(b, ps, k, out, prev) ==
    IF k > Len(ps)
    THEN [panic |-> FALSE, val |-> out \o GoSlice(b, prev, Len(b))]
    ELSE IF ps[k] < 0 \/ ps[k] >= Len(b)
         THEN SkipLoop(b, ps, k + 1, out, prev)
         ELSE IF prev > ps[k]
              THEN [panic |-> TRUE, val |-> << >>]
              ELSE SkipLoop(b, ps, k + 1, out \o GoSlice(b, prev, ps[k]), ps[k] + 1)

\* A sliceSkipAt that does not sort its positions.
sliceSkipAt_unsorted(s, positions) ==
    IF Len(positions) = 0
    THEN [panic |-> FALSE, val |-> s]
    ELSE SkipLoop(s, positions, 1, << >>, 0)

\* sliceSkipAt(s, positions...): s without the bytes at the in-bounds
\* positions; the result records whether the call panicked.
sliceSkipAt(s, positions) ==
    IF Len(positions) = 0
    THEN [panic |-> FALSE, val |-> s]
    ELSE SkipLoop(s, SortAscending(positions), 1, << >>, 0)

\* ---------------------------------------------------------- index derivation
\* The five exported functions of the embedded module.  The module is opaque
\* compiled bytecode; it is represented by five distinct deterministic
\* functions of five integers that are sensitive to the order of their
\* arguments and return negative, in-range and out-of-range indices.
cdx(a, b, c, d, e) == ((1 * a + 2 * b + 3 * c + 4 * d + 5 * e) % 9) - 2
rdx(a, b, c, d, e) == ((2 * a + 3 * b + 5 * c + 1 * d + 4 * e) % 9) - 2
bdx(a, b, c, d, e) == ((3 * a + 1 * b + 4 * c + 5 * d + 2 * e) % 9) - 2
ndx(a, b, c, d, e) == ((5 * a + 4 * b + 1 * c + 2 * d + 3 * e) % 9) - 2
mdx(a, b, c, d, e) == ((4 * a + 5 * b + 2 * c + 3 * d + 1 * e) % 9) - 2

\* How many exported-function calls one derivation makes.
DerivationCalls == 10
\* How many indices one index set holds.
IndexCount == 5

\* A derivation that passes the salts in their given order to every call.
indicesFromSalts_sameOrder(s, failAt) ==
    LET n  == cdx(s[1], s[2], s[3], s[4], s[5])
        l  == rdx(s[1], s[2], s[3], s[4], s[5])
        o  == bdx(s[1], s[2], s[3], s[4], s[5])
        pp == ndx(s[1], s[2], s[3], s[4], s[5])
        q  == mdx(s[1], s[2], s[3], s[4], s[5])
    IN  IF failAt # 0
        THEN [err |-> TRUE, access |-> << >>, refresh |-> << >>]
        ELSE [err |-> FALSE,
              access  |-> << n, l, o, pp, q >>,
              refresh |-> << n, l, o, pp, q >>]

\* A derivation that ignores the error of its last call.
indicesFromSalts_ignoreLast(s, failAt) ==
    LET n  == cdx(s[1], s[2], s[3], s[4], s[5])
        l  == rdx(s[1], s[2], s[4], s[3], s[5])
        o  == bdx(s[1], s[2], s[4], s[3], s[5])
        pp == ndx(s[1], s[2], s[4], s[3], s[5])
        q  == mdx(s[1], s[2], s[4], s[3], s[5])
        a  == cdx(s[2], s[1], s[3], s[5], s[4])
        b  == rdx(s[2], s[1], s[3], s[4], s[5])
        cc == bdx(s[2], s[1], s[4], s[3], s[5])
        d  == ndx(s[2], s[1], s[4], s[3], s[5])
        e  == mdx(s[2], s[1], s[4], s[3], s[5])
    IN  IF failAt # 0 /\ failAt # DerivationCalls
        THEN [err |-> TRUE, access |-> << >>, refresh |-> << >>]
        ELSE [err |-> FALSE,
              access  |-> << n, l, o, pp, q >>,
              refresh |-> << a, b, cc, d, e >>]

\* indicesFromSalts(s): failAt = 0 when every call5 returns, else the number
\* (1..10) of the first call that returns an error (a trap, a closed runtime).
indicesFromSalts(s, failAt) ==
    LET s1 == s[1]
        s2 == s[2]
        s3 == s[3]
        s4 == s[4]
        s5 == s[5]
        n  == cdx(s1, s2, s3, s4, s5)
        l  == rdx(s1, s2, s4, s3, s5)
        o  == bdx(s1, s2, s4, s3, s5)
        pp == ndx(s1, s2, s4, s3, s5)
        q  == mdx(s1, s2, s4, s3, s5)
        a  == cdx(s2, s1, s3, s5, s4)
        b  == rdx(s2, s1, s3, s4, s5)
        cc == bdx(s2, s1, s4, s3, s5)
        d  == ndx(s2, s1, s4, s3, s5)
        e  == mdx(s2, s1, s4, s3, s5)
    IN  IF failAt # 0
        THEN [err |-> TRUE, access |-> << >>, refresh |-> << >>]
        ELSE [err |-> FALSE,
              access  |-> << n, l, o, pp, q >>,
              refresh |-> << a, b, cc, d, e >>]

\* A division that rounds to the nearest whole number.
GoDiv_nearest(x, y) ==
    IF x >= 0 THEN (x + y \div 2) \div y ELSE -((-x + y \div 2) \div y)

\* Go's integer division truncates toward zero.
GoDiv(x, y) == IF x >= 0 THEN x \div y ELSE -((-x) \div y)

\* A parseResponse that cuts each token with the other token's indices.
parseResponse_swapped(tr, failAt) ==
    LET idx == indicesFromSalts(tr.salts, failAt)
        pa  == sliceSkipAt(tr.AccessToken, idx.refresh)
        pr  == sliceSkipAt(tr.RefreshToken, idx.access)
    IN  IF idx.err
        THEN [err |-> TRUE, panic |-> FALSE, access |-> << >>,
              refresh |-> << >>, salts |-> tr.salts, sec |-> 0]
        ELSE [err |-> FALSE, panic |-> pa.panic \/ pr.panic,
              access |-> pa.val, refresh |-> pr.val, salts |-> tr.salts,
              sec |-> GoDiv(tr.ServerTime, MsPerSec)]

\* Manager.parseResponse(tr): the reconstructed tokens, the salts and the
\* server time in whole seconds; err on a derivation error, panic when
\* sliceSkipAt panics.
parseResponse(tr, failAt) ==
    LET idx == indicesFromSalts(tr.salts, failAt)
        pa  == sliceSkipAt(tr.AccessToken, idx.access)
        pr  == sliceSkipAt(tr.RefreshToken, idx.refresh)
    IN  IF idx.err
        THEN [err |-> TRUE, panic |-> FALSE, access |-> << >>,
              refresh |-> << >>, salts |-> tr.salts, sec |-> 0]
        ELSE [err |-> FALSE, panic |-> pa.panic \/ pr.panic,
              access |-> pa.val, refresh |-> pr.val, salts |-> tr.salts,
              sec |-> GoDiv(tr.ServerTime, MsPerSec)]

\* ------------------------------------------------------------ the collaborator
\* Token bundles GetTokens can decode from the server's JSON (it validates
\* nothing): a usable one, one whose accessToken is the empty string, one
\* whose refreshToken is, one whose access indices repeat an in-bounds
\* position.
FirstBody ==
    [salts |-> << 1, 2, 1, 0, 2 >>,
     AccessToken  |-> << "a", "x", "b", "y" >>,
     RefreshToken |-> << "x", "c", "y", "d" >>]

BundleBodies ==
    { FirstBody,
      [salts |-> << 2, 0, 0, 1, 0 >>,
       AccessToken  |-> << >>,
       RefreshToken |-> << "h", "x" >>],
      [salts |-> << 1, 0, 0, 2, 1 >>,
       AccessToken  |-> << "k", "j", "x" >>,
       RefreshToken |-> << >>],
      [salts |-> << 0, 0, 0, 0, 3 >>,
       AccessToken  |-> << "p", "x", "q" >>,
       RefreshToken |-> << "r" >>] }

\* What the server reports as its time: nothing (the field decodes to 0),
\* its clock in step with the local one, or its clock one validity window
\* behind the local one.  A property of the server, fixed for a run.
ServerClocks == { "absent", "instep", "behind" }

\* The serverTime (ms) of a response produced at local time t.
ServerTime(clock, t) ==
    IF clock = "absent" THEN 0
    ELSE IF clock = "instep" THEN t
    ELSE t - maxUpdatePeriod

Bundles(clock, t) ==
    { [salts |-> b.salts, AccessToken |-> b.AccessToken,
       RefreshToken |-> b.RefreshToken, ServerTime |-> ServerTime(clock, t)] :
      b \in BundleBodies }

NoBundle ==
    [salts |-> << 0, 0, 0, 0, 0 >>, AccessToken |-> << >>,
     RefreshToken |-> << >>, ServerTime |-> 0]

NoParsed ==
    [err |-> FALSE, panic |-> FALSE, access |-> << >>, refresh |-> << >>,
     salts |-> << 0, 0, 0, 0, 0 >>, sec |-> 0]

\* ---------------------------------------------------------------------- state
VARIABLES
    m,          \* Manager: accessToken, refreshToken, salts, tokenTS
    mu,         \* m.mu: the caller holding the write lock, or None
    sf,         \* m.sf: the in-flight call of key "token_update", or None
    calls,      \* the singleflight call objects created so far
    pc,         \* each caller's position
    op,         \* each caller's current operation
    loc,        \* each caller's locals
    ret,        \* the call that returned in the last step, with its results
    now,        \* the local clock (ms)
    server,     \* the server's clock behaviour
    crashed,    \* an unrecovered panic ended the program
    ctx,        \* each caller's context: TRUE once it is cancelled
    px,         \* a function applied on its own: its input and its result
    hist        \* history (not program state): counters and per-field tags

vars ==
    << m, mu, sf, calls, pc, op, loc, ret, now, server, crashed, ctx, px,
       hist >>

Ops == { "AccessToken", "RefreshToken", "ForceUpdate" }

\* The Manager NewManager returns: no tokens, the zero time.
NewManager ==
    [accessToken |-> << >>, refreshToken |-> << >>,
     salts |-> << 0, 0, 0, 0, 0 >>, tokenTS |-> ZeroTime]

\* Locals of one call.  ret: where isValid returns to (the accessor, "fast",
\* or the singleflight function, "fn"); call: the singleflight call executed
\* or joined; err: the error update returned.  History of the call:
\* startInflight, the update in flight when the call was issued;
\* startFetches, the GetTokens calls made before it; checkFresh, whether its
\* freshness check fell within the validity window; waitCancel, whether its
\* context was cancelled while it waited for a call in flight; before, the
\* stored fields when the update the call executes started (kept until the
\* update has stored a bundle and returns nil).
InitLoc ==
    [ret |-> "fast", call |-> None, resp |-> NoBundle, parsed |-> NoParsed,
     err |-> "nil", startInflight |-> None, startFetches |-> 0,
     checkFresh |-> FALSE, waitCancel |-> FALSE, before |-> NewManager]

\* No call returned in the last step.
NoRet ==
    [p |-> None, op |-> "none", tok |-> << >>, err |-> "nil", call |-> None,
     upd |-> "none", joined |-> FALSE, tokTag |-> None,
     startInflight |-> None,
     startFetches |-> 0, checkFresh |-> FALSE, cancelled |-> FALSE,
     waitCancel |-> FALSE]

\* The timestamp update stores: the server's whole seconds when positive,
\* else the local time.
NewTokenTS(ts, t) == IF ts > 0 THEN ts * MsPerSec ELSE t

\* The four fields update stores from a parsed bundle at local time t.
Stored(r, t) ==
    [accessToken |-> r.access, refreshToken |-> r.refresh,
     salts |-> r.salts, tokenTS |-> NewTokenTS(r.sec, t)]

\* The four stores of update after parseResponse returned r; the state mm
\* is kept when parseResponse failed.
StoreParsed(mm, r, t) ==
    [err |-> r.err, panic |-> r.panic, sec |-> r.sec,
     m |-> IF r.err \/ r.panic THEN mm ELSE Stored(r, t)]

\* The body of update's function for one caller running alone, after
\* GetTokens returned the bundle tr at local time t: parseResponse, then the
\* four stores.
update(mm, tr, failAt, t) == StoreParsed(mm, parseResponse(tr, failAt), t)

NoHist ==
    [getTokensCalls |-> 0, refreshTokensCalls |-> 0, ops |-> 0,
     tag |-> [accessToken |-> None, refreshToken |-> None,
              salts |-> None, tokenTS |-> None],
     maxActive |-> 0, onlyAccess |-> TRUE, staleAfterStore |-> FALSE,
     okUpdate |-> FALSE, failedUpdate |-> FALSE,
     accessOk |-> 0, accessToks |-> {}, tornRead |-> FALSE, cold |-> TRUE,
     raw |-> [AccessToken |-> << >>, RefreshToken |-> << >>]]

\* A Manager just constructed.
InitCold ==
    /\ m = NewManager
    /\ calls = << >>
    /\ hist = NoHist

\* A Manager one AccessToken call after construction: the call ran alone at
\* StartClock, its update fetched the bundle of body FirstBody and stored it.
InitWarm ==
    LET b == [salts |-> FirstBody.salts,
              AccessToken |-> FirstBody.AccessToken,
              RefreshToken |-> FirstBody.RefreshToken,
              ServerTime |-> ServerTime(server, StartClock)]
        r == parseResponse(b, 0)
    IN  /\ m = Stored(r, StartClock)
        /\ calls = << [done |-> TRUE, err |-> "nil", stored |-> TRUE,
                         fetches |-> 1] >>
        /\ hist = [NoHist EXCEPT
                      !.getTokensCalls = 1,
                      !.tag = [accessToken |-> 1, refreshToken |-> 1,
                               salts |-> 1, tokenTS |-> 1],
                      !.okUpdate = TRUE,
                      !.staleAfterStore = ~(StartClock - Stored(r, StartClock).tokenTS < maxUpdatePeriod),
                      !.maxActive = 1,
                      !.accessOk = 1, !.accessToks = { r.access },
                      !.raw = [AccessToken |-> FirstBody.AccessToken,
                               RefreshToken |-> FirstBody.RefreshToken],
                      !.cold = FALSE]

\* No function is applied on its own.
NoPx == [fn |-> "none", in |-> << >>, out |-> << >>, done |-> FALSE]

\* The Manager and its callers before any call.
InitManager ==
    /\ server \in ServerClocks
    /\ InitCold \/ InitWarm
    /\ mu = None
    /\ sf = None
    /\ pc = [p \in Procs |-> "idle"]
    /\ op = [p \in Procs |-> "none"]
    /\ loc = [p \in Procs |-> InitLoc]
    /\ ret = NoRet
    /\ now = StartClock
    /\ crashed = FALSE
    /\ ctx = [p \in Procs |-> FALSE]

Init == InitManager /\ px = NoPx

\* -------------------------------------------------------------------- helpers
\* A validity window that includes its end.
isValid_inclusive(mm, t) ==
    IF mm.accessToken = << >> \/ mm.tokenTS = ZeroTime
    THEN FALSE
    ELSE t - mm.tokenTS <= maxUpdatePeriod

\* A validity test that never finds the state fresh.
isValid_never(mm, t) == FALSE

\* Manager.isValid under the read lock, at local time t.
isValid(mm, t) ==
    IF mm.accessToken = << >> \/ mm.tokenTS = ZeroTime
    THEN FALSE
    ELSE t - mm.tokenTS < maxUpdatePeriod

\* A read lock that excludes no writer.
CanRLock_always(lock) == TRUE

\* sync.RWMutex: RLock and Lock are granted while no writer holds the lock.
\* A read-locked section (RLock; read; RUnlock) is one step of the model: the
\* lock admits no writer inside it, so the section sees the state of the
\* moment the lock was granted.
CanRLock(lock) == lock = None
CanLock(lock) == lock = None

\* A group that deduplicates nothing.
sfJoins_never(inflight) == FALSE

\* singleflight.Group.Do: a caller joins the call in flight for the key, if
\* there is one, instead of running the function itself.
sfJoins(inflight) == inflight # None

Active(p) == pc[p] # "idle"

\* History: whether a call's freshness check fell within the validity
\* window, 45 s from the time stored with a non-empty access token.
WithinWindow(mm, t) ==
    /\ mm.accessToken # << >>
    /\ mm.tokenTS # ZeroTime
    /\ t - mm.tokenTS < 45000

\* History: the update that wrote the field operation o returns.
TagOf(o) == IF o = "AccessToken" THEN hist.tag.accessToken
            ELSE hist.tag.refreshToken

\* History: the stored fields were written by different updates.
Torn ==
    \E f, g \in { "accessToken", "refreshToken", "salts", "tokenTS" } :
        hist.tag[f] # hist.tag[g]

\* A call of caller p returns tok, err: the caller is idle again and the
\* call, with its history, is the last return.  upd: the error update
\* returned to the call, "none" if it did not call update; reads: the
\* returning step reads the stored fields.
Return(p, tok, err, upd, tokTag, reads) ==
    /\ pc' = [pc EXCEPT ![p] = "idle"]
    /\ op' = [op EXCEPT ![p] = "none"]
    /\ loc' = [loc EXCEPT ![p] = InitLoc]
    /\ ret' = [p |-> p, op |-> op[p], tok |-> tok, err |-> err,
               call |-> loc[p].call, upd |-> upd,
               joined |-> loc[p].call # None /\ loc[p].ret # "fn",
               tokTag |-> tokTag,
               startInflight |-> loc[p].startInflight,
               startFetches |-> loc[p].startFetches,
               checkFresh |-> loc[p].checkFresh,
               cancelled |-> ctx[p],
               waitCancel |-> loc[p].waitCancel]
    /\ ctx' = [ctx EXCEPT ![p] = FALSE]
    /\ hist' = [hist EXCEPT
                   !.accessOk = IF op[p] = "AccessToken" /\ err = "nil"
                                THEN @ + 1 ELSE @,
                   !.accessToks = IF op[p] = "AccessToken" /\ err = "nil"
                                  THEN @ \cup { tok } ELSE @,
                   !.tornRead = @ \/ (reads /\ Torn)]

\* ------------------------------------------------------------------- actions
\* A caller starts AccessToken, RefreshToken or ForceUpdate.
StartOp(p, o) ==
    /\ ~crashed
    /\ UNCHANGED << ctx, px >>
    /\ ~Active(p)
    /\ hist.ops < MaxOps
    /\ op' = [op EXCEPT ![p] = o]
    /\ loc' = [loc EXCEPT ![p] =
                  [InitLoc EXCEPT !.startInflight = sf,
                                  !.startFetches = hist.getTokensCalls]]
    /\ pc' = [pc EXCEPT ![p] = IF o = "ForceUpdate" THEN "sfDo" ELSE "isValid"]
    /\ hist' = [hist EXCEPT
                   !.ops = @ + 1,
                   !.onlyAccess = @ /\ o = "AccessToken",
                   !.maxActive =
                       LET n == Cardinality({ q \in Procs : Active(q) }) + 1
                       IN  IF n > @ THEN n ELSE @]
    /\ ret' = NoRet
    /\ UNCHANGED << m, mu, sf, calls, now, server, crashed >>

\* isValid, called by AccessToken / RefreshToken: fresh, the cached read
\* follows; not fresh, update.
AccessorIsValid(p) ==
    /\ ~crashed
    /\ UNCHANGED << ctx, px >>
    /\ pc[p] = "isValid"
    /\ loc[p].ret = "fast"
    /\ CanRLock(mu)
    /\ pc' = [pc EXCEPT ![p] =
                 IF isValid(m, now) THEN "cachedRead" ELSE "sfDo"]
    /\ loc' = [loc EXCEPT ![p].checkFresh = WithinWindow(m, now)]
    /\ hist' = [hist EXCEPT !.tornRead = @ \/ Torn]
    /\ ret' = NoRet
    /\ UNCHANGED << m, mu, sf, calls, op, now, server, crashed >>

\* The token the fresh path returns: the stored field, as it is.
CachedResult(o, mm) ==
    [tok |-> IF o = "AccessToken" THEN mm.accessToken ELSE mm.refreshToken,
     err |-> "nil"]

\* The fresh path: RLock; t := m.accessToken (m.refreshToken); RUnlock;
\* return t, nil.
CachedRead(p) ==
    /\ ~crashed
    /\ UNCHANGED px
    /\ pc[p] = "cachedRead"
    /\ CanRLock(mu)
    /\ LET r == CachedResult(op[p], m)
       IN  Return(p, r.tok, r.err, "none", TagOf(op[p]), TRUE)
    /\ UNCHANGED << m, mu, sf, calls, now, server, crashed >>

\* update: m.sf.Do("token_update", fn).  With a call in flight the caller
\* waits for it; otherwise it registers a new call and runs fn.
SfDo(p) ==
    /\ ~crashed
    /\ UNCHANGED << ctx, px >>
    /\ pc[p] = "sfDo"
    /\ IF sfJoins(sf)
       THEN /\ loc' = [loc EXCEPT ![p].call = sf]
            /\ pc' = [pc EXCEPT ![p] = "sfWait"]
            /\ UNCHANGED << sf, calls >>
       ELSE /\ calls' = Append(calls, [done |-> FALSE, err |-> "nil",
                                         stored |-> FALSE, fetches |-> 0])
            /\ sf' = Len(calls) + 1
            /\ loc' = [loc EXCEPT ![p].call = Len(calls) + 1, ![p].ret = "fn",
                                  ![p].before = m]
            /\ pc' = [pc EXCEPT ![p] = "isValid"]
    /\ ret' = NoRet
    /\ UNCHANGED << m, mu, op, now, server, crashed, hist >>

\* A singleflight function without the re-check.
fnSkips_never(mm, t) == FALSE

\* Whether fn returns early, without fetching: the re-check of validity
\* inside the singleflight window.
fnSkips(mm, t) == isValid(mm, t)

\* An update that asks for a refresh once a refresh token is stored.
Fetch_refresh(mm) ==
    IF mm.refreshToken # << >> THEN "RefreshTokens" ELSE "GetTokens"

\* The operation of the collaborator (NepseHTTP) through which update
\* obtains its bundle, for a Manager in state mm: m.http.GetTokens(ctx),
\* whatever is stored.
Fetch(mm) == "GetTokens"

\* The collaborator's calls counted: one more call of operation o.
Counted(h, o) ==
    IF o = "GetTokens"
    THEN [h EXCEPT !.getTokensCalls = @ + 1]
    ELSE [h EXCEPT !.refreshTokensCalls = @ + 1]

\* fn: if m.isValid() return nil; else GetTokens is called.
FnIsValid(p) ==
    /\ ~crashed
    /\ UNCHANGED << ctx, px >>
    /\ pc[p] = "isValid"
    /\ loc[p].ret = "fn"
    /\ CanRLock(mu)
    /\ IF fnSkips(m, now)
       THEN /\ pc' = [pc EXCEPT ![p] = "sfFinish"]
            /\ hist' = [hist EXCEPT !.okUpdate = TRUE,
                                    !.tornRead = @ \/ Torn]
            /\ calls' = calls
       ELSE /\ pc' = [pc EXCEPT ![p] = "GetTokens"]
            /\ hist' = [Counted(hist, Fetch(m)) EXCEPT
                                    !.tornRead = @ \/ Torn]
            /\ calls' = [calls EXCEPT ![loc[p].call].fetches = @ + 1]
    /\ ret' = NoRet
    /\ UNCHANGED << m, mu, sf, op, loc, now, server, crashed >>

\* What GetTokens can return under a context: with the context cancelled
\* the request fails with the context's error; otherwise the request fails
\* for a reason of its own or a bundle is decoded.
GetTokensErrs(cancelled) ==
    IF cancelled THEN { "get token: context canceled" } ELSE { "get token" }

GetTokensBundles(cancelled, clock, t) ==
    IF cancelled THEN { } ELSE Bundles(clock, t)

\* A function that tries again after a failed fetch.
AfterGetTokensErr_retry == "isValid"

\* Where fn goes when GetTokens returned an error: it returns the wrapped
\* error, there is no second attempt.
AfterGetTokensErr == "sfFinish"

\* m.http.GetTokens(ctx) returns: an error, or a decoded bundle.
GetTokens(p) ==
    /\ ~crashed
    /\ UNCHANGED << ctx, px >>
    /\ pc[p] = "GetTokens"
    /\ \/ \E e \in GetTokensErrs(ctx[p]) :
             /\ loc' = [loc EXCEPT ![p].err = e]
             /\ pc' = [pc EXCEPT ![p] = AfterGetTokensErr]
             /\ hist' = [hist EXCEPT !.failedUpdate = TRUE]
       \/ \E b \in GetTokensBundles(ctx[p], server, now) :
             /\ loc' = [loc EXCEPT ![p].resp = b]
             /\ pc' = [pc EXCEPT ![p] = "parseResponse"]
             /\ hist' = hist
    /\ ret' = NoRet
    /\ UNCHANGED << m, mu, sf, calls, op, now, server, crashed >>

\* A function that goes on to the stores after a derivation error.
AfterParseErr_store == "Lock"

\* Where fn goes when parseResponse returned an error: it returns the error
\* before any field is stored.
AfterParseErr == "sfFinish"

\* m.parseResponse(*resp): a derivation error ends fn with "wasm parse"; a
\* panic in sliceSkipAt is recovered nowhere and ends the program.
ParseResponse(p) ==
    /\ ~crashed
    /\ UNCHANGED << ctx, px >>
    /\ pc[p] = "parseResponse"
    /\ \E failAt \in 0..DerivationCalls :
          LET r == parseResponse(loc[p].resp, failAt)
          IN  IF r.err
              THEN /\ loc' = [loc EXCEPT ![p].err = "wasm parse",
                                         ![p].resp = NoBundle]
                   /\ pc' = [pc EXCEPT ![p] = AfterParseErr]
                   /\ hist' = [hist EXCEPT !.failedUpdate = TRUE]
                   /\ crashed' = crashed
              ELSE IF r.panic
              THEN /\ crashed' = TRUE
                   /\ UNCHANGED << loc, pc, hist >>
              ELSE /\ loc' = [loc EXCEPT ![p].parsed = r]
                   /\ pc' = [pc EXCEPT ![p] = "Lock"]
                   /\ UNCHANGED << hist, crashed >>
    /\ ret' = NoRet
    /\ UNCHANGED << m, mu, sf, calls, op, now, server >>

\* update: m.mu.Lock(); m.accessToken = access.
LockSetAccess(p) ==
    /\ ~crashed
    /\ UNCHANGED << ctx, px >>
    /\ pc[p] = "Lock"
    /\ CanLock(mu)
    /\ mu' = p
    /\ m' = [m EXCEPT !.accessToken = loc[p].parsed.access]
    /\ hist' = [hist EXCEPT !.tag.accessToken = loc[p].call]
    /\ pc' = [pc EXCEPT ![p] = "setRefresh"]
    /\ ret' = NoRet
    /\ UNCHANGED << sf, calls, op, loc, now, server, crashed >>

\* update: m.refreshToken = refresh.
SetRefresh(p) ==
    /\ ~crashed
    /\ UNCHANGED << ctx, px >>
    /\ pc[p] = "setRefresh"
    /\ m' = [m EXCEPT !.refreshToken = loc[p].parsed.refresh]
    /\ hist' = [hist EXCEPT !.tag.refreshToken = loc[p].call]
    /\ pc' = [pc EXCEPT ![p] = "setSalts"]
    /\ ret' = NoRet
    /\ UNCHANGED << mu, sf, calls, op, loc, now, server, crashed >>

\* update: m.salts = salts.
SetSalts(p) ==
    /\ ~crashed
    /\ UNCHANGED << ctx, px >>
    /\ pc[p] = "setSalts"
    /\ m' = [m EXCEPT !.salts = loc[p].parsed.salts]
    /\ hist' = [hist EXCEPT !.tag.salts = loc[p].call]
    /\ pc' = [pc EXCEPT ![p] = "setTokenTS"]
    /\ ret' = NoRet
    /\ UNCHANGED << mu, sf, calls, op, loc, now, server, crashed >>

\* update: m.tokenTS = time.Unix(ts, 0) if ts > 0, else time.Now();
\* m.mu.Unlock(); fn returns updateResult{}, nil.
SetTokenTSUnlock(p) ==
    /\ ~crashed
    /\ UNCHANGED << ctx, px >>
    /\ pc[p] = "setTokenTS"
    /\ m' = [m EXCEPT !.tokenTS = NewTokenTS(loc[p].parsed.sec, now)]
    /\ mu' = None
    /\ calls' = [calls EXCEPT ![loc[p].call].stored = TRUE]
    /\ loc' = [loc EXCEPT ![p].parsed = NoParsed,
                          ![p].resp = NoBundle,
                          ![p].before = IF loc[p].err = "nil"
                                        THEN NewManager ELSE @]
    /\ hist' = [hist EXCEPT !.tag.tokenTS = loc[p].call,
                            !.raw = [AccessToken |-> loc[p].resp.AccessToken,
                                     RefreshToken |->
                                         loc[p].resp.RefreshToken],
                            !.okUpdate = TRUE,
                            !.staleAfterStore = @ \/ ~isValid(m', now)]
    /\ pc' = [pc EXCEPT ![p] = "sfFinish"]
    /\ ret' = NoRet
    /\ UNCHANGED << sf, op, now, server, crashed >>

\* Accessors that read the stored token whatever update returned.
ReturnsAfterUpdate_forceOnly(o, e) == o = "ForceUpdate"

\* What AccessToken / RefreshToken / ForceUpdate do with update's error e:
\* ForceUpdate returns it; the accessors return "", e when e is an error and
\* otherwise go on to read the token.
ReturnsAfterUpdate(o, e) == o = "ForceUpdate" \/ e # "nil"


AfterUpdate(p, e) ==
    IF ReturnsAfterUpdate(op[p], e)
    THEN Return(p, << >>, e, e, None, FALSE)
    ELSE /\ pc' = [pc EXCEPT ![p] = "updatedRead"]
         /\ loc' = [loc EXCEPT ![p].err = e]
         /\ ret' = NoRet
         /\ UNCHANGED << op, hist, ctx >>

\* singleflight doCall after fn returned: the call gets fn's error, leaves
\* the group's map and is marked done; Do returns that error to the caller
\* that ran fn.
SfFinish(p) ==
    /\ ~crashed
    /\ UNCHANGED px
    /\ pc[p] = "sfFinish"
    /\ calls' = [calls EXCEPT ![loc[p].call] =
                     [@ EXCEPT !.done = TRUE, !.err = loc[p].err]]
    /\ sf' = None
    /\ AfterUpdate(p, loc[p].err)
    /\ UNCHANGED << m, mu, now, server, crashed >>

\* A waiter that gets nil whatever fn returned.
WaiterErr_nil(c) == "nil"

\* The error Do returns to a caller that waited for call c.
WaiterErr(c) == c.err

\* A wait that ends before the call does.
WaitOver_always(c) == TRUE

\* c.wg.Wait(): the waiter goes on when the call is done.
WaitOver(c) == c.done

\* singleflight Do of a caller that joined: c.wg.Wait(); return c.err.
SfWait(p) ==
    /\ ~crashed
    /\ UNCHANGED px
    /\ pc[p] = "sfWait"
    /\ WaitOver(calls[loc[p].call])
    /\ AfterUpdate(p, WaiterErr(calls[loc[p].call]))
    /\ UNCHANGED << m, mu, sf, calls, now, server, crashed >>

\* The result after update: an error for an empty stored token.
UpdatedResult(o, mm) ==
    LET t == IF o = "AccessToken" THEN mm.accessToken ELSE mm.refreshToken
    IN  IF t = << >>
        THEN [tok |-> << >>,
              err |-> IF o = "AccessToken"
                      THEN "empty access token after update"
                      ELSE "empty refresh token after update"]
        ELSE [tok |-> t, err |-> "nil"]

\* AccessToken / RefreshToken after update: RLock; the empty check; the
\* return; the deferred RUnlock.
UpdatedRead(p) ==
    /\ ~crashed
    /\ UNCHANGED px
    /\ pc[p] = "updatedRead"
    /\ CanRLock(mu)
    /\ LET r == UpdatedResult(op[p], m)
       IN  Return(p, r.tok, r.err, loc[p].err, TagOf(op[p]), TRUE)
    /\ UNCHANGED << m, mu, sf, calls, now, server, crashed >>

\* The local clock advances.
Tick ==
    /\ ~crashed
    /\ UNCHANGED << ctx, px >>
    /\ now < StartClock + MaxTicks * TickMs
    /\ now' = now + TickMs
    /\ hist' = [hist EXCEPT !.staleAfterStore =
                                @ \/ (/\ mu = None
                                      /\ hist.tag.tokenTS # None
                                      /\ ~isValid(m, now + TickMs))]
    /\ ret' = NoRet
    /\ UNCHANGED << m, mu, sf, calls, pc, op, loc, server, crashed >>

\* ------------------------------------------------------------------ the system
Step(p) ==
    \/ \E o \in Ops : StartOp(p, o)
    \/ AccessorIsValid(p)
    \/ CachedRead(p)
    \/ SfDo(p)
    \/ FnIsValid(p)
    \/ GetTokens(p)
    \/ ParseResponse(p)
    \/ LockSetAccess(p)
    \/ SetRefresh(p)
    \/ SetSalts(p)
    \/ SetTokenTSUnlock(p)
    \/ SfFinish(p)
    \/ SfWait(p)
    \/ UpdatedRead(p)

\* An unrecovered panic ends the program: no step follows it.
Next == Tick \/ \E p \in Procs : Step(p)

\* The program with contexts that are never cancelled.
Spec == Init /\ [][Next]_vars

\* The steps of caller p other than the call of parseResponse.
StepAround(p) ==
    \/ \E o \in Ops : StartOp(p, o)
    \/ AccessorIsValid(p)
    \/ CachedRead(p)
    \/ SfDo(p)
    \/ FnIsValid(p)
    \/ GetTokens(p)
    \/ LockSetAccess(p)
    \/ SetRefresh(p)
    \/ SetSalts(p)
    \/ SetTokenTSUnlock(p)
    \/ SfFinish(p)
    \/ SfWait(p)
    \/ UpdatedRead(p)

\* parseResponse waits for nothing: the call can be made whenever the
\* caller is at it and the program runs.
ParseResponseEnabled(p) == ~crashed /\ pc[p] = "parseResponse"

\* Weak fairness of ParseResponse(p), with its enabling condition written
\* out.
ParseResponseFair(p) ==
    \/ []<>(~ParseResponseEnabled(p))
    \/ []<><<ParseResponse(p)>>_vars

\* A goroutine that can take a step eventually takes one: GetTokens and
\* the bytecode calls return, a lock that is free is taken, a wait that is
\* over ends.  The clock is under no obligation.
Fairness ==
    \A p \in Procs : WF_vars(StepAround(p)) /\ ParseResponseFair(p)

\* The program under fair scheduling.
SpecFair == Init /\ [][Next]_vars /\ Fairness

\* ------------------------------------------------------- context cancellation
\* The context of caller p's call in progress is cancelled.
Cancel(p) ==
    /\ ~crashed
    /\ Active(p)
    /\ ~ctx[p]
    /\ ctx' = [ctx EXCEPT ![p] = TRUE]
    /\ loc' = [loc EXCEPT ![p].waitCancel =
                  pc[p] = "sfWait" /\ ~WaitOver(calls[loc[p].call])]
    /\ ret' = NoRet
    /\ UNCHANGED << m, mu, sf, calls, pc, op, now, server, crashed, px,
                    hist >>

\* A Manager just constructed whose server reports its time in step.
InitCtx == Init /\ InitCold /\ server = "instep"

NextCtx == Next \/ \E p \in Procs : Cancel(p)

\* The program with contexts that can be cancelled while a call is in
\* progress.
SpecCtx == InitCtx /\ [][NextCtx]_vars


\* ------------------------------------------------- construction and release
\* The five functions newTokenParser looks up, in its order.
ExportNames == << "cdx", "rdx", "bdx", "ndx", "mdx" >>

NoParser == [present |-> FALSE]

\* The wazero runtime: compiling and instantiating the embedded module
\* succeed or fail as the load says, and the instantiated module exports
\* the functions of load.exports.  A runtime is "open" or "closed".
\* wazero's Runtime.Close: the first call closes the runtime and reports the
\* modules' close error, if any; a call on a closed runtime does nothing
\* and returns nil.
rtClose(rt, closeErr) ==
    IF rt = "closed"
    THEN [rt |-> "closed", err |-> "nil"]
    ELSE [rt |-> "closed", err |-> IF closeErr THEN "close" ELSE "nil"]

\* getExport for the k-th name and the ones after it: the first missing
\* export closes the runtime and is the error.
RECURSIVE getExports(_, _)
getExports(load, k) ==
    IF k > Len(ExportNames)
    THEN [parser |-> [present |-> TRUE], err |-> "nil", rt |-> "open"]
    ELSE IF ExportNames[k] \notin load.exports
         THEN [parser |-> NoParser, err |-> << "export not found",
                                               ExportNames[k] >>,
               rt |-> rtClose("open", FALSE).rt]
         ELSE getExports(load, k + 1)

\* A newTokenParser that leaves the runtime open when a function is
\* missing.
newTokenParser_leak(load) ==
    IF ~load.compile
    THEN [parser |-> NoParser, err |-> << "compile wasm" >>,
          rt |-> rtClose("open", FALSE).rt]
    ELSE IF ~load.instantiate
         THEN [parser |-> NoParser, err |-> << "instantiate wasm" >>,
               rt |-> rtClose("open", FALSE).rt]
         ELSE [getExports(load, 1) EXCEPT !.rt = "open"]

\* newTokenParser: a runtime is created, the module compiled and
\* instantiated and the five functions looked up; every failure closes the
\* runtime and returns no parser.
newTokenParser(load) ==
    IF ~load.compile
    THEN [parser |-> NoParser, err |-> << "compile wasm" >>,
          rt |-> rtClose("open", FALSE).rt]
    ELSE IF ~load.instantiate
         THEN [parser |-> NoParser, err |-> << "instantiate wasm" >>,
               rt |-> rtClose("open", FALSE).rt]
         ELSE getExports(load, 1)

NoManager == [present |-> FALSE]

\* auth.NewManager: the parser's error wrapped and no Manager, or a Manager
\* with the parser and the zero credential state.
NewManagerFrom(load) ==
    LET p == newTokenParser(load)
    IN  IF p.err # "nil"
        THEN [manager |-> NoManager,
              err |-> << "init wasm parser" >> \o p.err, rt |-> p.rt]
        ELSE [manager |-> [present |-> TRUE, parser |-> p.parser,
                           state |-> NewManager],
              err |-> "nil", rt |-> p.rt]

\* tokenParser.close: the runtime's Close.
tokenParser_close(rt, closeErr) == rtClose(rt, closeErr)

\* A Close that refuses a second call.
ManagerClose_once(parser, rt, closeErr) ==
    IF rt = "closed"
    THEN [rt |-> "closed", err |-> "already closed"]
    ELSE tokenParser_close(rt, closeErr)

\* Manager.Close: the parser's close when there is a parser, else nil.
ManagerClose(parser, rt, closeErr) ==
    IF parser.present
    THEN tokenParser_close(rt, closeErr)
    ELSE [rt |-> rt, err |-> "nil"]

\* ------------------------------------------------- functions on their own
\* The raw tokens given to sliceSkipAt: the prefixes of "abcd...".
Letters == << "a", "b", "c", "d", "e", "f", "g", "h" >>

RawStrings == { SubSeq(Letters, 1, n) : n \in 0..MaxStr }

\* The index lists: up to IndexCount indices, each negative, inside or past
\* the end of the raw token, in any order and with repetitions.
IndexValues == -1..MaxStr

IndexLists ==
    UNION { [1..n -> IndexValues] : n \in 0..IndexCount }

SliceInputs ==
    { [s |-> s, ps |-> ps] : s \in RawStrings, ps \in IndexLists }
        \cup { [s |-> << "a", "b", "c", "d", "e", "f" >>, ps |-> << 1, 3 >>],
               [s |-> << "a", "b", "c" >>, ps |-> << 5, -1, 1 >>],
               [s |-> << "t", "o", "k", "e", "n", "1", "2", "3" >>,
                ps |-> << >>] }

SaltInputs ==
    { [salts |-> sl, failAt |-> k] :
        sl \in [1..5 -> 0..MaxSalt], k \in 0..DerivationCalls }

ParseInputs ==
    { [tr |-> [salts |-> b.salts, AccessToken |-> b.AccessToken,
               RefreshToken |-> b.RefreshToken, ServerTime |-> st],
       failAt |-> k] :
        b \in BundleBodies, st \in { 0, 999, 1000, 100500 },
        k \in 0..DerivationCalls }

\* Server times in milliseconds: negative, zero, below one second, on and
\* inside a second, and around the local clock.
ServerTimes ==
    { -1500, -1, 0, 1, 999, 1000, 1999, 55000, 55999, 56000, 100500 }

UpdateInputs ==
    { [m |-> NewManager,
       tr |-> [salts |-> b.salts, AccessToken |-> b.AccessToken,
               RefreshToken |-> b.RefreshToken, ServerTime |-> st],
       failAt |-> k, t |-> StartClock] :
        b \in BundleBodies, st \in ServerTimes, k \in 0..1 }

\* What loading the embedded module can meet: a module that does not
\* compile, one that does not instantiate, any set of exported functions.
LoadInputs ==
    { [compile |-> c, instantiate |-> i, exports |-> e] :
        c \in BOOLEAN, i \in BOOLEAN,
        e \in SUBSET { ExportNames[k] : k \in 1..Len(ExportNames) } }

\* The Managers Close is called on: one from NewManager, whose runtime is
\* open, and the zero Manager, without a parser; the modules of the runtime
\* close with or without an error.
CloseInputs ==
    { [parser |-> [present |-> TRUE], closeErr |-> ce] : ce \in BOOLEAN }
        \cup { [parser |-> NoParser, closeErr |-> FALSE] }

\* A function and its input are chosen; the Manager is idle.
InitPure ==
    /\ InitManager
    /\ InitCold
    /\ server = "absent"
    /\ px \in { [fn |-> "sliceSkipAt", in |-> i, out |-> << >>,
                 done |-> FALSE] : i \in SliceInputs }
         \cup { [fn |-> "indicesFromSalts", in |-> i, out |-> << >>,
                 done |-> FALSE] : i \in SaltInputs }
         \cup { [fn |-> "parseResponse", in |-> i, out |-> << >>,
                 done |-> FALSE] : i \in ParseInputs }
         \cup { [fn |-> "update", in |-> i, out |-> << >>,
                 done |-> FALSE] : i \in UpdateInputs }
         \cup { [fn |-> "NewManager", in |-> i, out |-> << >>,
                 done |-> FALSE] : i \in LoadInputs }
         \cup { [fn |-> "Close", in |-> i,
                 out |-> [rt |-> IF i.parser.present THEN "open" ELSE "none",
                          errs |-> << >>],
                 done |-> FALSE] : i \in CloseInputs }

ApplySliceSkipAt ==
    /\ px.fn = "sliceSkipAt"
    /\ ~px.done
    /\ px' = [px EXCEPT !.out = sliceSkipAt(px.in.s, px.in.ps),
                        !.done = TRUE]
    /\ UNCHANGED << m, mu, sf, calls, pc, op, loc, ret, now, server,
                    crashed, ctx, hist >>

ApplyIndicesFromSalts ==
    /\ px.fn = "indicesFromSalts"
    /\ ~px.done
    /\ px' = [px EXCEPT !.out = indicesFromSalts(px.in.salts, px.in.failAt),
                        !.done = TRUE]
    /\ UNCHANGED << m, mu, sf, calls, pc, op, loc, ret, now, server,
                    crashed, ctx, hist >>

ApplyParseResponse ==
    /\ px.fn = "parseResponse"
    /\ ~px.done
    /\ px' = [px EXCEPT !.out = parseResponse(px.in.tr, px.in.failAt),
                        !.done = TRUE]
    /\ UNCHANGED << m, mu, sf, calls, pc, op, loc, ret, now, server,
                    crashed, ctx, hist >>

ApplyUpdate ==
    /\ px.fn = "update"
    /\ ~px.done
    /\ px' = [px EXCEPT !.out = update(px.in.m, px.in.tr, px.in.failAt,
                                       px.in.t),
                        !.done = TRUE]
    /\ UNCHANGED << m, mu, sf, calls, pc, op, loc, ret, now, server,
                    crashed, ctx, hist >>

ApplyNewManager ==
    /\ px.fn = "NewManager"
    /\ ~px.done
    /\ px' = [px EXCEPT !.out = NewManagerFrom(px.in), !.done = TRUE]
    /\ UNCHANGED << m, mu, sf, calls, pc, op, loc, ret, now, server,
                    crashed, ctx, hist >>

\* Manager.Close, called once more on the same Manager.
Close ==
    /\ px.fn = "Close"
    /\ Len(px.out.errs) < MaxCloses
    /\ LET r == ManagerClose(px.in.parser, px.out.rt, px.in.closeErr)
       IN  px' = [px EXCEPT !.out = [rt |-> r.rt,
                                     errs |-> Append(px.out.errs, r.err)],
                            !.done = TRUE]
    /\ UNCHANGED << m, mu, sf, calls, pc, op, loc, ret, now, server,
                    crashed, ctx, hist >>

NextPure ==
    \/ ApplySliceSkipAt
    \/ ApplyIndicesFromSalts
    \/ ApplyParseResponse
    \/ ApplyUpdate
    \/ ApplyNewManager
    \/ Close

\* sliceSkipAt, indicesFromSalts and parseResponse applied to every input of
\* the sets above.
SpecPure == InitPure /\ [][NextPure]_vars

\* ------------------------------------------------- Close among the callers
\* A Manager from NewManager, its runtime open, before any call; px holds
\* the runtime and the errors the Close calls returned.
InitClose ==
    /\ InitManager
    /\ InitCold
    /\ server = "instep"
    /\ px = [fn |-> "Close",
             in |-> [parser |-> [present |-> TRUE], closeErr |-> FALSE],
             out |-> [rt |-> "open", errs |-> << >>],
             done |-> FALSE]

\* Close takes no lock and update looks at no flag: a Close call is a step
\* that can be taken between any two steps of the callers.
NextClose == Next \/ Close

\* The Manager with AccessToken, RefreshToken and ForceUpdate callers and
\* Close calls.  What an exported function returns when it is called on a
\* closed runtime is the runtime's business: every outcome of
\* indicesFromSalts is left open.
SpecClose == InitClose /\ [][NextClose]_vars

\* ------------------------------------------------------- the nepse client
\* time.Duration is a signed 64-bit count of nanoseconds.  A Duration is
\* held as four 16-bit limbs, least significant first, in two's complement.
LimbBase == 65536

\* The Duration of i nanoseconds, 0 <= i < 2^31.
FromInt(i) == << i % LimbBase, i \div LimbBase, 0, 0 >>

\* x * k modulo 2^64 for a small k >= 0, with the carry out of 64 bits.
MulSmall(x, k) ==
    LET l1 == x[1] * k
        l2 == x[2] * k + (l1 \div LimbBase)
        l3 == x[3] * k + (l2 \div LimbBase)
        l4 == x[4] * k + (l3 \div LimbBase)
    IN  [val |-> << l1 % LimbBase, l2 % LimbBase, l3 % LimbBase,
                    l4 % LimbBase >>,
         carry |-> l4 \div LimbBase]

IsNeg(x) == x[4] >= LimbBase \div 2

\* a < b on signed 64-bit values.
Less(a, b) ==
    IF IsNeg(a) # IsNeg(b)
    THEN IsNeg(a)
    ELSE \E i \in 1..4 :
            /\ a[i] < b[i]
            /\ \A j \in (i + 1)..4 : a[j] = b[j]

NsPerSecond == 1000000000
NsPerMs == 1000000

Seconds(n) == MulSmall(FromInt(NsPerSecond), n).val

ZeroDuration == FromInt(0)

\* The cap on the backoff delay: 30 * time.Second.
MaxDelaySeconds == 30

\* 2^r for r in 0..15.
Pow2 == << 1, 2, 4, 8, 16, 32, 64, 128, 256, 512, 1024, 2048, 4096, 8192,
           16384, 32768 >>

\* x * 2^n modulo 2^64 for x >= 0: the bits of x moved n places up, those
\* moved past bit 63 dropped.  lost records that x * 2^n itself does not
\* fit a non-negative Duration.
ShiftLeft(x, n) ==
    IF n >= 64
    THEN [val |-> << 0, 0, 0, 0 >>, lost |-> x # << 0, 0, 0, 0 >>]
    ELSE LET q == n \div 16
             w == MulSmall(x, Pow2[(n % 16) + 1])
             v == [i \in 1..4 |-> IF i > q THEN w.val[i - q] ELSE 0]
         IN  [val |-> v,
              lost |-> \/ w.carry # 0
                       \/ \E i \in (5 - q)..4 : w.val[i] # 0
                       \/ IsNeg(v)]

\* minDuration(a, b).
minDuration(a, b) == IF Less(a, b) THEN a ELSE b

\* The delay before attempt number attempt >= 1 (the first attempt is 0):
\* minDuration(RetryDelay * time.Duration(1 << uint(attempt - 1)), 30 s).
\* The shift and the product are 64-bit: RetryDelay * 2^(attempt-1) modulo
\* 2^64, which is RetryDelay shifted left.
backoff(retryDelay, attempt) ==
    minDuration(ShiftLeft(retryDelay, attempt - 1).val,
                Seconds(MaxDelaySeconds))

\* time.Sleep(d) returns at once for d <= 0: the time waited.
Sleep(d) == IF IsNeg(d) THEN ZeroDuration ELSE d

\* What one client.Do meets: a transport error (status 0) or a response
\* with a status and a body.
NetErr == [status |-> 0, body |-> "none"]

Response(status, body) == [status |-> status, body |-> body]

\* The server's answer to the attempts of one request, in order; past the
\* end of the list the server is unreachable.
OutcomeAt(rs, k) == IF k <= Len(rs) THEN rs[k] ELSE NetErr

StatusTooManyRequests == 429
StatusOK == 200
StatusUnauthorized == 401

\* The statuses doRequest considers for a retry.
RetryCandidate(status) == status >= 500 \/ status = StatusTooManyRequests

\* NepseError.IsRetryable for the error of a status: the retryable
\* statuses are those of opts.retryable.
IsRetryable(opts, status) == status \in opts.retryable

\* MapHTTPStatusToError.
MapHTTPStatusToError(status) == << "http", status >>

\* doRequest's loop from attempt on: client.Do and the decision to return
\* or to continue with the next attempt.
RECURSIVE doRequestFrom(_, _, _, _)
doRequestFrom(opts, rs, attempt, lastErr) ==
    IF attempt > opts.MaxRetries
    THEN [status |-> 0, body |-> "none", err |-> lastErr,
          attempts |-> attempt]
    ELSE LET o == OutcomeAt(rs, attempt + 1)
         IN  IF o.status = 0
             THEN doRequestFrom(opts, rs, attempt + 1, << "network" >>)
             ELSE IF RetryCandidate(o.status)
                  THEN IF ~IsRetryable(opts, o.status)
                       THEN [status |-> 0, body |-> "none",
                             err |-> MapHTTPStatusToError(o.status),
                             attempts |-> attempt + 1]
                       ELSE doRequestFrom(opts, rs, attempt + 1,
                                          MapHTTPStatusToError(o.status))
                  ELSE [status |-> o.status, body |-> o.body, err |-> "nil",
                        attempts |-> attempt + 1]

\* The time slept before each attempt after the first, for the loop's
\* result r.
WithWaits(opts, r) ==
    [status |-> r.status, body |-> r.body, err |-> r.err,
     attempts |-> r.attempts,
     waits |-> [k \in 1..(r.attempts - 1) |->
                   Sleep(backoff(opts.RetryDelay, k))]]

\* HTTPClient.doRequest(req) against the answers rs.
doRequest(opts, rs) == WithWaits(opts, doRequestFrom(opts, rs, 0, "nil"))

\* client.Do(req) at attempt k (from 1) of a request whose context is
\* cancelled while attempt cancelAt is in flight (0: never cancelled): from
\* then on client.Do returns the context's error at once.
Do(rs, k, cancelAt) ==
    IF cancelAt # 0 /\ k >= cancelAt THEN NetErr ELSE OutcomeAt(rs, k)

\* HTTPClient.doRequest(req) for a request under such a context: the loop
\* and the sleeps take no notice of the context, client.Do alone does.
doRequestCtx(opts, rs, cancelAt) ==
    doRequest(opts, [k \in 1..(opts.MaxRetries + 1) |-> Do(rs, k, cancelAt)])

\* The list s without its first n entries.
Drop(s, n) == IF n >= Len(s) THEN << >> ELSE SubSeq(s, n + 1, Len(s))

\* GetTokens after doRequest returned d: the status test and the decoding
\* of the body.  A 200 body names the server clock of the bundle; "bad"
\* does not decode.
DecodeTokens(d, t) ==
    IF d.err # "nil"
    THEN [err |-> d.err, tr |-> NoBundle, used |-> d.attempts]
    ELSE IF d.status # StatusOK
         THEN [err |-> MapHTTPStatusToError(d.status), tr |-> NoBundle,
               used |-> d.attempts]
         ELSE IF d.body = "bad"
              THEN [err |-> << "failed to decode token response" >>,
                    tr |-> NoBundle, used |-> d.attempts]
              ELSE [err |-> "nil",
                    tr |-> [salts |-> FirstBody.salts,
                            AccessToken |-> FirstBody.AccessToken,
                            RefreshToken |-> FirstBody.RefreshToken,
                            ServerTime |-> ServerTime(d.body, t)],
                    used |-> d.attempts]

\* HTTPClient.GetTokens at local time t against the token endpoint's
\* answers rs.
HTTPClient_GetTokens(opts, rs, t) == DecodeTokens(doRequest(opts, rs), t)

\* The client's state after a call: the answers used up, the call logged.
\* st holds the Manager's state, the answers still to come from the API
\* and the token endpoint, and the log of calls.
Logged(st, entry) == [st EXCEPT !.log = Append(@, entry)]

\* update after parseResponse and the stores returned u.
AfterStores(st, u) ==
    IF u.err
    THEN [err |-> << "wasm parse" >>, st |-> st]
    ELSE [err |-> "nil", st |-> [st EXCEPT !.m = u.m]]

\* update after GetTokens returned g.
AfterGetTokens(st, g, t) ==
    IF g.err # "nil"
    THEN [err |-> << "get token" >> \o g.err,
          st |-> [st EXCEPT !.tok = Drop(@, g.used)]]
    ELSE AfterStores([st EXCEPT !.tok = Drop(@, g.used)],
                     update(st.m, g.tr, 0, t))

\* Manager.update called by the client's only goroutine: the singleflight
\* function runs at once; the re-check, GetTokens, parseResponse, the
\* stores.
updateAlone(opts, st, t) ==
    IF fnSkips(st.m, t)
    THEN [err |-> "nil", st |-> st]
    ELSE AfterGetTokens(Logged(st, << "GetTokens" >>),
                        HTTPClient_GetTokens(opts, st.tok, t), t)

\* AccessToken after update returned u.
TokenAfterUpdate(u) ==
    IF u.err # "nil"
    THEN [tok |-> << >>, err |-> u.err, st |-> u.st]
    ELSE [tok |-> UpdatedResult("AccessToken", u.st.m).tok,
          err |-> UpdatedResult("AccessToken", u.st.m).err,
          st |-> u.st]

\* Manager.AccessToken called by the client's only goroutine.
AccessTokenAlone(opts, st, t) ==
    IF isValid(st.m, t)
    THEN [tok |-> CachedResult("AccessToken", st.m).tok, err |-> "nil",
          st |-> st]
    ELSE TokenAfterUpdate(updateAlone(opts, st, t))

\* A client that refreshes the token after every 401.
ShouldRefresh_always(status, retryCount) == status = StatusUnauthorized

\* The test before ForceUpdate: a 401 on the first try only.
ShouldRefresh(status, retryCount) ==
    status = StatusUnauthorized /\ retryCount = 0

RECURSIVE apiRequestWithRetry(_, _, _, _)

\* apiRequestWithRetry after ForceUpdate returned f.
AfterForceUpdate(opts, f, t, retryCount) ==
    IF f.err # "nil"
    THEN [err |-> << "failed to refresh token" >>, st |-> f.st]
    ELSE apiRequestWithRetry(opts, f.st, t, retryCount + 1)

\* apiRequestWithRetry after doRequest returned d, in the state st that
\* has the send logged.
AfterDoRequest(opts, st, d, t, retryCount) ==
    IF d.err # "nil"
    THEN [err |-> d.err, st |-> st]
    ELSE IF ShouldRefresh(d.status, retryCount)
         THEN AfterForceUpdate(opts,
                  updateAlone(opts, Logged(st, << "ForceUpdate" >>), t),
                  t, retryCount)
         ELSE IF d.status # StatusOK
              THEN [err |-> MapHTTPStatusToError(d.status), st |-> st]
              ELSE IF d.body = "bad"
                   THEN [err |-> << "failed to decode response" >>,
                         st |-> st]
                   ELSE [err |-> "nil", st |-> st]

\* The state after doRequest returned d: its attempts used up, the send
\* logged.
Sent(st, d) ==
    [st EXCEPT !.api = Drop(@, d.attempts),
               !.log = Append(@, << "send", d.status >>)]

\* apiRequestWithRetry with doRequest's result d.
WithResponse(opts, st, d, t, retryCount) ==
    AfterDoRequest(opts, Sent(st, d), d, t, retryCount)

\* apiRequestWithRetry after AccessToken returned a.
AfterAccessToken(opts, a, t, retryCount) ==
    IF a.err # "nil"
    THEN [err |-> << "failed to get access token" >>, st |-> a.st]
    ELSE WithResponse(opts, a.st, doRequest(opts, a.st.api), t, retryCount)

\* apiRequestWithRetry(ctx, endpoint, result, retryCount) at local time t.
apiRequestWithRetry(opts, st, t, retryCount) ==
    AfterAccessToken(opts,
        AccessTokenAlone(opts, Logged(st, << "AccessToken" >>), t),
        t, retryCount)

\* apiRequest(ctx, endpoint, result).
apiRequest(opts, st, t) == apiRequestWithRetry(opts, st, t, 0)

\* The example program's client (package main): GetTokens is one
\* client.Do, the status test and the decoding of the body.
main_GetTokens(rs, t) ==
    DecodeTokens([status |-> OutcomeAt(rs, 1).status,
                  body |-> OutcomeAt(rs, 1).body,
                  err |-> IF OutcomeAt(rs, 1).status = 0
                          THEN << "http request" >> ELSE "nil",
                  attempts |-> 1], t)

\* Manager.update called by the example's only goroutine, with the
\* example's client as the collaborator.
main_update(st, t) ==
    IF fnSkips(st.m, t)
    THEN [err |-> "nil", st |-> st]
    ELSE AfterGetTokens(Logged(st, << "GetTokens" >>),
                        main_GetTokens(st.tok, t), t)

\* Manager.AccessToken called by the example's only goroutine.
main_AccessToken(st, t) ==
    IF isValid(st.m, t)
    THEN [tok |-> CachedResult("AccessToken", st.m).tok, err |-> "nil",
          st |-> st]
    ELSE TokenAfterUpdate(main_update(st, t))

RECURSIVE main_apiRequest(_, _)

\* The example's apiRequest after ForceUpdate returned f.
main_AfterForceUpdate(f, t) ==
    IF f.err # "nil"
    THEN [err |-> << "token refresh failed" >>, st |-> f.st]
    ELSE main_apiRequest(f.st, t)

\* The example's apiRequest after client.Do returned o, in the state st
\* that has the send logged.
main_AfterDo(st, o, t) ==
    IF o.status = 0
    THEN [err |-> << "http request" >>, st |-> st]
    ELSE IF o.status = StatusUnauthorized
         THEN main_AfterForceUpdate(
                  main_update(Logged(st, << "ForceUpdate" >>), t), t)
         ELSE IF o.status # StatusOK
              THEN [err |-> << "HTTP", o.status >>, st |-> st]
              ELSE IF o.body = "bad"
                   THEN [err |-> << "decode response" >>, st |-> st]
                   ELSE [err |-> "nil", st |-> st]

\* The example's apiRequest after AccessToken returned a: one client.Do.
main_AfterAccessToken(a, t) ==
    IF a.err # "nil"
    THEN [err |-> << "get access token" >>, st |-> a.st]
    ELSE main_AfterDo([a.st EXCEPT
                          !.api = Drop(@, 1),
                          !.log = Append(@, << "send",
                                       OutcomeAt(a.st.api, 1).status >>)],
                      OutcomeAt(a.st.api, 1), t)

\* The example's HTTPClient.apiRequest(ctx, endpoint, result) at local
\* time t.
main_apiRequest(st, t) ==
    main_AfterAccessToken(
        main_AccessToken(Logged(st, << "AccessToken" >>), t), t)

\* The cap on the securities GetSectorScrips looks at.
maxSecurities == 50

Min(a, b) == IF a < b THEN a ELSE b

\* GetSectorScrips' loop from security i on: a promoter share is grouped
\* by its symbol alone; for any other security GetCompanyDetails is called
\* and its sector, or "Others", is the group.  acc holds the groups (as
\* the list of group and symbol pairs) and the requests made.
RECURSIVE sectorLoop(_, _, _, _)
sectorLoop(securities, i, n, acc) ==
    IF i > n
    THEN acc
    ELSE LET sec == securities[i]
         IN  IF sec.promoter
             THEN sectorLoop(securities, i + 1, n,
                      [acc EXCEPT !.scrips =
                          Append(@, << "Promoter Share", sec.symbol >>)])
             ELSE LET group == IF sec.details = "err" \/ sec.details = ""
                               THEN "Others" ELSE sec.details
                  IN  sectorLoop(securities, i + 1, n,
                          [acc EXCEPT
                              !.scrips = Append(@, << group, sec.symbol >>),
                              !.requests = Append(@, << "company_details",
                                                        sec.symbol >>)])

\* HTTPClient.GetSectorScrips: the security list, then the loop.
GetSectorScrips(listOk, securities) ==
    IF ~listOk
    THEN [err |-> << "failed to get security list" >>, scrips |-> << >>,
          requests |-> << << "security_list" >> >>]
    ELSE LET acc == sectorLoop(securities, 1,
                               Min(Len(securities), maxSecurities),
                               [scrips |-> << >>,
                                requests |-> << << "security_list" >> >>])
         IN  [err |-> "nil", scrips |-> acc.scrips,
              requests |-> acc.requests]

\* The answers of the server to one attempt.
AttemptOutcomes ==
    { NetErr, Response(StatusOK, "ok"), Response(StatusUnauthorized, "none"),
      Response(StatusTooManyRequests, "none"), Response(500, "none"),
      Response(503, "none") }

RetryableSets == SUBSET { StatusTooManyRequests, 500, 503 }

RetryDelays == { FromInt(NsPerMs), Seconds(1), Seconds(20) }

\* doRequest's options and answers: few retries against every list of
\* answers, and many retries against a server that is never reached.
DoRequestInputs ==
    { [opts |-> [MaxRetries |-> n, RetryDelay |-> d, retryable |-> rt],
       rs |-> rs] :
        n \in 0..MaxRetriesSmall, d \in RetryDelays, rt \in RetryableSets,
        rs \in UNION { [1..k -> AttemptOutcomes] :
                         k \in 0..(MaxRetriesSmall + 1) } }
        \cup
    { [opts |-> [MaxRetries |-> MaxRetriesLong, RetryDelay |-> d,
                 retryable |-> { StatusTooManyRequests, 500, 503 }],
       rs |-> << >>] : d \in RetryDelays }

\* Options.MaxRetries is an int that nothing validates: a negative value.
NegativeRetries == -1

\* doRequest under a context that is cancelled during one of the attempts
\* or never, with MaxRetries positive, zero or negative.
DoRequestCtxInputs ==
    { [opts |-> [MaxRetries |-> n, RetryDelay |-> Seconds(1),
                 retryable |-> { StatusTooManyRequests, 500, 503 }],
       rs |-> rs, cancelAt |-> c] :
        n \in NegativeRetries..MaxRetriesSmall,
        rs \in [1..(MaxRetriesSmall + 1) -> AttemptOutcomes],
        c \in 0..(MaxRetriesSmall + 1) }

\* The API endpoint's answers to an authenticated request.
ApiOutcomes ==
    { NetErr, Response(StatusOK, "ok"), Response(StatusOK, "bad"),
      Response(StatusUnauthorized, "none"), Response(404, "none"),
      Response(503, "none") }

\* The token endpoint's answers: unreachable, a bundle stamped with the
\* caller's clock or with a clock a validity window behind, an error.
TokenOutcomes ==
    { NetErr, Response(StatusOK, "instep"), Response(StatusOK, "behind"),
      Response(500, "none") }

MaxApiAnswers == 3
MaxTokenAnswers == 2

\* A Manager just constructed, or fresh from an earlier request.
ClientManagers ==
    { NewManager,
      update(NewManager,
             [salts |-> FirstBody.salts,
              AccessToken |-> FirstBody.AccessToken,
              RefreshToken |-> FirstBody.RefreshToken,
              ServerTime |-> 0], 0, StartClock).m }

ApiRequestInputs ==
    { [opts |-> [MaxRetries |-> n, RetryDelay |-> Seconds(1),
                 retryable |-> { StatusTooManyRequests, 500, 503 }],
       st |-> [m |-> mm, api |-> api, tok |-> tok, log |-> << >>],
       t |-> StartClock] :
        n \in 0..1, mm \in ClientManagers,
        api \in [1..MaxApiAnswers -> ApiOutcomes],
        tok \in [1..MaxTokenAnswers -> TokenOutcomes] }

\* Security lists: promoter shares and other securities, whose company
\* details fail, name a sector or name none.
SecurityKinds ==
    { [symbol |-> "NABILP", promoter |-> TRUE, details |-> "err"],
      [symbol |-> "NABIL", promoter |-> FALSE, details |-> "Banking"],
      [symbol |-> "UPPER", promoter |-> FALSE, details |-> "Hydro"],
      [symbol |-> "XYZ", promoter |-> FALSE, details |-> ""],
      [symbol |-> "ABC", promoter |-> FALSE, details |-> "err"] }

SectorInputs ==
    { [listOk |-> ok, securities |-> l] :
        ok \in BOOLEAN,
        l \in UNION { [1..k -> SecurityKinds] : k \in 0..MaxSecurities } }

\* The example's requests: the API answers every send the same way or in
\* any other way, up to MaxApiAnswers answers.
MainRequestInputs ==
    { [st |-> [m |-> mm, api |-> api, tok |-> tok, log |-> << >>],
       t |-> StartClock] :
        mm \in ClientManagers,
        api \in [1..MaxApiAnswers -> ApiOutcomes],
        tok \in [1..MaxTokenAnswers -> TokenOutcomes] }

InitClient ==
    /\ InitManager
    /\ InitCold
    /\ server = "absent"
    /\ px \in { [fn |-> "doRequest", in |-> i, out |-> << >>,
                 done |-> FALSE] : i \in DoRequestInputs }
         \cup { [fn |-> "apiRequest", in |-> i, out |-> << >>,
                 done |-> FALSE] : i \in ApiRequestInputs }
         \cup { [fn |-> "GetSectorScrips", in |-> i, out |-> << >>,
                 done |-> FALSE] : i \in SectorInputs }
         \cup { [fn |-> "main.apiRequest", in |-> i, out |-> << >>,
                 done |-> FALSE] : i \in MainRequestInputs }
         \cup { [fn |-> "doRequest.ctx", in |-> i, out |-> << >>,
                 done |-> FALSE] : i \in DoRequestCtxInputs }

ApplyDoRequest ==
    /\ px.fn = "doRequest"
    /\ ~px.done
    /\ px' = [px EXCEPT !.out = doRequest(px.in.opts, px.in.rs),
                        !.done = TRUE]
    /\ UNCHANGED << m, mu, sf, calls, pc, op, loc, ret, now, server,
                    crashed, ctx, hist >>

ApplyApiRequest ==
    /\ px.fn = "apiRequest"
    /\ ~px.done
    /\ px' = [px EXCEPT !.out = apiRequest(px.in.opts, px.in.st, px.in.t),
                        !.done = TRUE]
    /\ UNCHANGED << m, mu, sf, calls, pc, op, loc, ret, now, server,
                    crashed, ctx, hist >>

ApplyGetSectorScrips ==
    /\ px.fn = "GetSectorScrips"
    /\ ~px.done
    /\ px' = [px EXCEPT !.out = GetSectorScrips(px.in.listOk,
                                                px.in.securities),
                        !.done = TRUE]
    /\ UNCHANGED << m, mu, sf, calls, pc, op, loc, ret, now, server,
                    crashed, ctx, hist >>

ApplyMainApiRequest ==
    /\ px.fn = "main.apiRequest"
    /\ ~px.done
    /\ px' = [px EXCEPT !.out = main_apiRequest(px.in.st, px.in.t),
                        !.done = TRUE]
    /\ UNCHANGED << m, mu, sf, calls, pc, op, loc, ret, now, server,
                    crashed, ctx, hist >>

ApplyDoRequestCtx ==
    /\ px.fn = "doRequest.ctx"
    /\ ~px.done
    /\ px' = [px EXCEPT !.out = doRequestCtx(px.in.opts, px.in.rs,
                                             px.in.cancelAt),
                        !.done = TRUE]
    /\ UNCHANGED << m, mu, sf, calls, pc, op, loc, ret, now, server,
                    crashed, ctx, hist >>

NextClient ==
    \/ ApplyDoRequest
    \/ ApplyApiRequest
    \/ ApplyGetSectorScrips
    \/ ApplyMainApiRequest
    \/ ApplyDoRequestCtx

\* The nepse HTTP client's doRequest (with and without a cancellable
\* context), apiRequest and GetSectorScrips, and the example program's
\* apiRequest, each called once by a single goroutine.
SpecClient == InitClient /\ [][NextClient]_vars

\* -------------------------------------------------------------------- claims
AllReturned == \A p \in Procs : ~Active(p)

\* Every caller issued one AccessToken call on a Manager just constructed,
\* all of them were in progress at the same time, and all have returned.
ConcurrentFirstCalls ==
    /\ hist.cold
    /\ hist.onlyAccess
    /\ hist.ops = NumProcs
    /\ hist.maxActive = NumProcs
    /\ AllReturned

OneFetchOneToken ==
    /\ hist.getTokensCalls = 1
    /\ hist.accessOk = NumProcs
    /\ Cardinality(hist.accessToks) = 1

CyclePositions ==
    { "isValid", "GetTokens", "parseResponse", "Lock", "setRefresh",
      "setSalts", "setTokenTS", "sfFinish" }

InCycle(p) == loc[p].ret = "fn" /\ pc[p] \in CyclePositions

\* C2: at every moment at most one update cycle is in progress: no two
\* callers are inside the singleflight function (its GetTokens call, its
\* index derivation, its stores) at once.
C2_OneCycle == Cardinality({ p \in Procs : InCycle(p) }) <= 1

C2_Witness ==
    \E p, q \in Procs :
        /\ pc[p] = "GetTokens"
        /\ pc[q] = "sfWait"
        /\ op[p] # op[q]

\* C3, as stated: a ForceUpdate that returns nil performed or joined an
\* update that fetched a new bundle (and so stored it).
C3_AsStated ==
    (ret.op = "ForceUpdate" /\ ret.err = "nil") => calls[ret.call].stored

\* C4: in a run whose calls do not overlap, an AccessToken call made within
\* the validity window (45 s from the stored time, with a token stored)
\* causes no GetTokens fetch, and one made outside it causes exactly one:
\* two successive calls within the window make one fetch in total, a
\* further call after the window a second.
C4_Freshness ==
    (hist.maxActive <= 1 /\ ret.op = "AccessToken")
        => IF ret.checkFresh
           THEN hist.getTokensCalls = ret.startFetches
           ELSE hist.getTokensCalls = ret.startFetches + 1

\* The first call fetched, the second was within the window and did not, the
\* third came after the window and fetched again.
C4_Witness ==
    /\ ~hist.cold
    /\ hist.onlyAccess
    /\ hist.maxActive <= 1
    /\ hist.ops = 2
    /\ ret.op = "AccessToken"
    /\ ~ret.checkFresh
    /\ hist.getTokensCalls = 2
    /\ hist.accessOk = 3

\* C5, as stated: an AccessToken call that returns a nil error returns a
\* non-empty token.
C5_AsStated ==
    (ret.op = "AccessToken" /\ ret.err = "nil") => ret.tok # << >>

\* C6, as stated: a RefreshToken call that returns a nil error returns a
\* non-empty token.
C6_AsStated ==
    (ret.op = "RefreshToken" /\ ret.err = "nil") => ret.tok # << >>

\* C7, as stated: outside the write-locked section, the stored access token
\* is empty if and only if no singleflight function has returned nil.
C7_AsStated ==
    mu = None => ((m.accessToken = << >>) <=> ~hist.okUpdate)

\* C8: no step that reads the stored fields under the read lock finds
\* fields written by two different updates, and the stores of an update are
\* all made under its write lock.
C8_OneBundle ==
    /\ ~hist.tornRead
    /\ mu = None => ~Torn
    /\ \A p \in Procs :
          pc[p] \in { "setRefresh", "setSalts", "setTokenTS" } => mu = p

\* An update is half way through replacing an earlier bundle while a reader
\* waits for the lock.
C8_Witness ==
    \E p, q \in Procs :
        /\ pc[q] = "setSalts"
        /\ mu = q
        /\ pc[p] = "cachedRead"
        /\ hist.tag.salts # None
        /\ Torn

\* C9: every caller that got an outcome from update got the error the
\* singleflight call it ran or joined ended with: nil when the function
\* returned nil, the function's error otherwise.
C9_SameOutcome ==
    (ret.p # None /\ ret.upd # "none") => ret.upd = calls[ret.call].err

C9_Witness ==
    /\ ret.joined
    /\ ret.upd = "wasm parse"
    /\ calls[ret.call].err = "wasm parse"

\* An accessor call issued while an update was in flight returned a token.
DuringUpdate ==
    /\ ret.op \in { "AccessToken", "RefreshToken" }
    /\ ret.err = "nil"
    /\ ret.startInflight # None

\* C10, as stated: an accessor call issued while an update is in flight that
\* returns successfully returns the token stored by that update or a later
\* one, and never a mix.
C10_AsStated ==
    DuringUpdate
        => /\ ret.tokTag # None
           /\ ret.tokTag >= ret.startInflight
           /\ ~hist.tornRead

\* C10: an accessor call issued while an update is in flight that calls
\* update and returns successfully returns after the singleflight call it
\* ran or joined is done, and if that call stored a bundle, the token is
\* that bundle's or a later one's, never a mix.
C10_Ordering ==
    (DuringUpdate /\ ret.upd # "none")
        => /\ calls[ret.call].done
           /\ ret.call >= ret.startInflight
           /\ calls[ret.call].stored => ret.tokTag >= ret.call
           /\ ~hist.tornRead

C10_Witness ==
    /\ DuringUpdate
    /\ ret.joined
    /\ ret.call = ret.startInflight
    /\ calls[ret.call].stored
    /\ ret.tokTag = ret.call
    /\ ret.tokTag > 1

\* The errors that report a cancelled context.
CancellationErrs == { "context canceled", "get token: context canceled" }

\* C11, as stated: a call whose context was cancelled while it waited for a
\* call in flight returns a cancellation error.
C11_AsStated ==
    (ret.p # None /\ ret.waitCancel) => ret.err \in CancellationErrs

\* C12, as stated: a caller that joined a shared update and whose own
\* context is not cancelled does not get the update failed by the
\* cancellation of another caller's context.
C12_AsStated ==
    (ret.joined /\ ~ret.cancelled) => ret.upd \notin CancellationErrs

\* The errors of a failed fetch.
FetchErrs == { "get token", "get token: context canceled" }

\* C13: one update cycle calls GetTokens at most once, and a cycle whose
\* GetTokens call failed ended with that error after its single call,
\* without storing anything.
C13_NoRetry ==
    \A c \in 1..Len(calls) :
        /\ calls[c].fetches <= 1
        /\ (calls[c].done /\ calls[c].err \in FetchErrs)
              => (calls[c].fetches = 1 /\ ~calls[c].stored)

C13_Witness ==
    /\ hist.cold
    /\ AllReturned
    /\ Len(calls) = 1
    /\ calls[1].done
    /\ calls[1].err = "get token"
    /\ calls[1].fetches = 1
    /\ hist.getTokensCalls = 1

\* C14: when the singleflight function is about to return an error (GetTokens
\* failed or the index derivation failed), the access token, refresh token,
\* salts and timestamp are exactly what they were when the update started,
\* and so are the updates recorded as their writers.
C14_FailedLeaves ==
    \A p \in Procs :
        (pc[p] = "sfFinish" /\ loc[p].err # "nil")
            => /\ m = loc[p].before
               /\ mu # p
               /\ \A f \in DOMAIN hist.tag : hist.tag[f] # loc[p].call

\* A derivation failed while an earlier bundle was stored.
C14_Witness ==
    \E p \in Procs :
        /\ pc[p] = "sfFinish"
        /\ loc[p].err = "wasm parse"
        /\ m.accessToken # << >>
        /\ m = loc[p].before
        /\ now > StartClock

\* C15: a call whose update (performed or joined) failed returns that error
\* and, for AccessToken / RefreshToken, the empty string, whatever token is
\* stored.
C15_ErrorSurfaced ==
    (ret.p # None /\ ret.upd \notin { "none", "nil" })
        => /\ ret.err = ret.upd
           /\ ret.err # "nil"
           /\ ret.tok = << >>

\* An AccessToken call fails with the update's error while the token of an
\* earlier bundle, now stale, is still stored.
C15_Witness ==
    /\ ret.op = "AccessToken"
    /\ ret.upd = "get token"
    /\ ret.err = "get token"
    /\ ret.tok = << >>
    /\ m.accessToken # << >>
    /\ ~isValid(m, now)

\* reconstruct(raw, indices): raw without the bytes at the listed 0-based
\* positions that lie inside it, the others in their order.
RECURSIVE KeepFrom(_, _, _)
KeepFrom(raw, i, skip) ==
    IF i > Len(raw) THEN << >>
    ELSE IF (i - 1) \in skip THEN KeepFrom(raw, i + 1, skip)
    ELSE << raw[i] >> \o KeepFrom(raw, i + 1, skip)

Reconstruct(raw, indices) ==
    KeepFrom(raw, 1, { indices[k] : k \in 1..Len(indices) })

\* C16: on a new Manager, with calls one after the other, a first AccessToken
\* call that succeeds has made exactly one GetTokens call and returns the
\* bundle's raw access token cut with the access indices of its salts; a
\* RefreshToken call that follows it returns the stored bundle's raw refresh
\* token cut with the refresh indices.
C16_FirstTokens ==
    (hist.cold /\ hist.maxActive <= 1 /\ ret.err = "nil")
        => /\ (ret.op = "AccessToken" /\ hist.ops = 1)
                => /\ hist.getTokensCalls = 1
                   /\ ret.tok = Reconstruct(hist.raw.AccessToken,
                                    indicesFromSalts(m.salts, 0).access)
           /\ (ret.op = "RefreshToken" /\ hist.ops = 2 /\ hist.accessOk = 1)
                => ret.tok = Reconstruct(hist.raw.RefreshToken,
                                 indicesFromSalts(m.salts, 0).refresh)

C16_Witness ==
    /\ hist.cold
    /\ hist.maxActive <= 1
    /\ hist.ops = 2
    /\ ret.op = "RefreshToken"
    /\ ret.err = "nil"
    /\ ret.tok = << "c", "d" >>
    /\ hist.accessToks = { << "a", "b" >> }
    /\ hist.getTokensCalls = 1
    /\ indicesFromSalts(m.salts, 0).access
           # indicesFromSalts(m.salts, 0).refresh

\* indicesFromSalts was applied to salts s1..s5 and every call returned.
Derived == px.fn = "indicesFromSalts" /\ px.done /\ px.in.failAt = 0

\* C17: for all salts s1..s5, indicesFromSalts returns
\* access = [cdx(s1,s2,s3,s4,s5), rdx(s1,s2,s4,s3,s5), bdx(s1,s2,s4,s3,s5),
\* ndx(s1,s2,s4,s3,s5), mdx(s1,s2,s4,s3,s5)] and
\* refresh = [cdx(s2,s1,s3,s5,s4), rdx(s2,s1,s3,s4,s5), bdx(s2,s1,s4,s3,s5),
\* ndx(s2,s1,s4,s3,s5), mdx(s2,s1,s4,s3,s5)], each in the listed position.
C17_Permutations ==
    Derived =>
        LET s1 == px.in.salts[1]
            s2 == px.in.salts[2]
            s3 == px.in.salts[3]
            s4 == px.in.salts[4]
            s5 == px.in.salts[5]
        IN  /\ ~px.out.err
            /\ px.out.access =
                   << cdx(s1, s2, s3, s4, s5), rdx(s1, s2, s4, s3, s5),
                      bdx(s1, s2, s4, s3, s5), ndx(s1, s2, s4, s3, s5),
                      mdx(s1, s2, s4, s3, s5) >>
            /\ px.out.refresh =
                   << cdx(s2, s1, s3, s5, s4), rdx(s2, s1, s3, s4, s5),
                      bdx(s2, s1, s4, s3, s5), ndx(s2, s1, s4, s3, s5),
                      mdx(s2, s1, s4, s3, s5) >>

\* Salts whose exchanged positions differ, with differing index sets.
C17_Witness ==
    /\ Derived
    /\ px.in.salts = << 0, 1, 2, 0, 1 >>
    /\ Len(px.out.access) = IndexCount
    /\ Len(px.out.refresh) = IndexCount
    /\ px.out.access # px.out.refresh

\* C18: when one of the ten derivation calls returns an error,
\* indicesFromSalts returns an error and no index set and parseResponse
\* returns an error and no token; index sets are returned only when all ten
\* calls returned.
C18_AllOrNothing ==
    /\ (px.fn = "indicesFromSalts" /\ px.done)
          => IF px.in.failAt # 0
             THEN /\ px.out.err
                  /\ px.out.access = << >>
                  /\ px.out.refresh = << >>
             ELSE /\ ~px.out.err
                  /\ Len(px.out.access) = IndexCount
                  /\ Len(px.out.refresh) = IndexCount
    /\ (px.fn = "parseResponse" /\ px.done)
          => /\ px.out.err <=> px.in.failAt # 0
             /\ px.out.err => (px.out.access = << >> /\ px.out.refresh = << >>)

\* The last of the ten calls failed.
C18_Witness ==
    /\ px.fn = "parseResponse"
    /\ px.done
    /\ px.in.failAt = DerivationCalls
    /\ px.out.err
    /\ px.in.tr.AccessToken # << >>

\* sliceSkipAt was applied to a raw string and an index list.
Sliced == px.fn = "sliceSkipAt" /\ px.done

\* C19, as stated: for every raw string and every list of up to five
\* indices (any order, negative, out of range or repeated), sliceSkipAt
\* returns the raw string without the bytes at the in-bounds listed
\* positions, the others in their order.
C19_AsStated ==
    Sliced => /\ ~px.out.panic
              /\ px.out.val = Reconstruct(px.in.s, px.in.ps)

\* The index list ps with its entries i and i + 1 exchanged.
SwapAt(ps, i) ==
    [k \in 1..Len(ps) |->
        IF k = i THEN ps[i + 1] ELSE IF k = i + 1 THEN ps[i] ELSE ps[k]]

\* C20: exchanging two neighbouring index arguments of sliceSkipAt never
\* changes its outcome.  Every permutation of a list is a sequence of such
\* exchanges and the index lists are closed under them, so every
\* permutation of every list gives the same outcome.
C20_OrderIndependent ==
    Sliced =>
        \A i \in 1..(Len(px.in.ps) - 1) :
            sliceSkipAt(px.in.s, SwapAt(px.in.ps, i)) = px.out

\* A descending list of in-bounds indices.
C20_Witness ==
    /\ Sliced
    /\ px.in.s = << "a", "b", "c" >>
    /\ px.in.ps = << 2, 3, 0, -1 >>
    /\ px.out = [panic |-> FALSE, val |-> << "b" >>]

\* C21, as stated: sliceSkipAt is total; for every raw string and every
\* index list, a repeated in-bounds index included, it returns a string and
\* never aborts on an out-of-range slice.
C21_AsStated == Sliced => ~px.out.panic

\* update ran to its stores: parseResponse succeeded.
Updated == px.fn = "update" /\ px.done /\ ~px.out.err /\ ~px.out.panic

\* C22, as stated: after a successful update the stored timestamp is the
\* server's time (its whole seconds) for every ServerTime > 0 ms, 1..999 ms
\* included, and the local time only for a ServerTime that is zero (absent)
\* or negative.
C22_AsStated ==
    Updated =>
        LET st == px.in.tr.ServerTime
        IN  IF st > 0
            THEN px.out.m.tokenTS = st - (st % MsPerSec)
            ELSE px.out.m.tokenTS = px.in.t

\* The times at which freshness is decided.
CheckTimes == { StartClock, StartClock + MsPerSec - 1, StartClock + MsPerSec }

\* C30: when update uses the server time (its whole seconds are positive),
\* the stored timestamp is the server's milliseconds with the sub-second
\* part discarded, and every other server time of the same second gives
\* the same stored timestamp and the same freshness decisions.
C30_Truncated ==
    (Updated /\ px.out.sec > 0) =>
        LET st == px.in.tr.ServerTime
        IN  /\ px.out.m.tokenTS = st - (st % MsPerSec)
            /\ \A st2 \in ServerTimes :
                   (st2 > 0 /\ st2 - (st2 % MsPerSec) = st - (st % MsPerSec))
                   => LET o2 == update(px.in.m,
                                       [px.in.tr EXCEPT !.ServerTime = st2],
                                       px.in.failAt, px.in.t)
                      IN  /\ o2.m.tokenTS = px.out.m.tokenTS
                          /\ \A c \in CheckTimes :
                                 isValid(o2.m, c) = isValid(px.out.m, c)

\* A server time at the end of a second that another server time starts.
C30_Witness ==
    /\ Updated
    /\ px.in.tr.ServerTime = 55999
    /\ 55000 \in ServerTimes
    /\ px.out.sec = 55
    /\ px.out.m.tokenTS = 55000
    /\ px.out.m.accessToken # << >>

\* C23: an AccessToken or RefreshToken call that finds the cached state
\* fresh returns the cached token with no error, having neither entered nor
\* waited on the singleflight call (so it ran no fn: no GetTokens, no
\* bytecode function), also while another caller's update is in flight.
C23_FreshFastPath ==
    /\ \A p \in Procs :
           pc[p] = "cachedRead" => loc[p].call = None /\ loc[p].ret = "fast"
    /\ (ret.p # None /\ ret.op \in { "AccessToken", "RefreshToken" }
            /\ ret.checkFresh)
       => /\ ret.upd = "none"
          /\ ret.call = None
          /\ ~ret.joined
          /\ ret.err = "nil"
          /\ ret.tok = CachedResult(ret.op, m).tok

\* A fresh return while an update registered before the call started is
\* still in flight.
C23_Witness ==
    /\ ret.p # None
    /\ ret.op \in { "AccessToken", "RefreshToken" }
    /\ ret.checkFresh
    /\ ret.tok # << >>
    /\ ret.startInflight # None
    /\ sf = ret.startInflight
    /\ ~calls[sf].done
    /\ \E q \in Procs : q # ret.p /\ loc[q].call = sf /\ loc[q].ret = "fn"

\* C29: when the caller that runs fn finds the state fresh at the re-check
\* inside the singleflight window, fn goes straight to its end with a nil
\* error: no GetTokens call, no parse, no store; update then returns nil
\* to that caller, and an accessor goes on to return the stored token (the
\* empty-token error only when the token stored by the other caller's
\* update is empty).
C29_Recheck ==
    /\ [][\A p \in Procs :
              (pc[p] = "isValid" /\ loc[p].ret = "fn" /\ WithinWindow(m, now)
                  /\ pc'[p] # pc[p])
              => /\ pc'[p] = "sfFinish"
                 /\ loc'[p].err = "nil"
                 /\ hist'.getTokensCalls = hist.getTokensCalls
                 /\ calls'[loc[p].call].fetches = 0
                 /\ m' = m]_vars
    /\ [](\A p \in Procs :
              (pc[p] = "sfFinish" /\ loc[p].ret = "fn"
                  /\ calls[loc[p].call].fetches = 0)
              => loc[p].err = "nil")
    /\ []((ret.p # None /\ ret.call # None /\ ~ret.joined
              /\ calls[ret.call].fetches = 0)
          => /\ ret.upd = "nil"
             /\ ret.op = "ForceUpdate" => ret.err = "nil"
             /\ ret.op # "ForceUpdate" =>
                    /\ ret.tok = UpdatedResult(ret.op, m).tok
                    /\ ret.err = "nil" <=> ret.tok # << >>)

\* A caller that found the state stale, registered its call after another
\* caller's update had stored, and is at the end of fn without a fetch.
C29_Witness ==
    \E p \in Procs :
        /\ op[p] \in { "AccessToken", "RefreshToken" }
        /\ ~loc[p].checkFresh
        /\ pc[p] = "sfFinish"
        /\ loc[p].ret = "fn"
        /\ calls[loc[p].call].fetches = 0
        /\ hist.getTokensCalls > loc[p].startFetches
        /\ \E c \in 1..(loc[p].call - 1) : calls[c].stored /\ calls[c].done

LoadFails(load) ==
    \/ ~load.compile
    \/ ~load.instantiate
    \/ \E k \in 1..Len(ExportNames) : ExportNames[k] \notin load.exports

\* C25: when the module does not compile or instantiate, or one of cdx,
\* rdx, bdx, ndx, mdx is missing, NewManager returns an error and no
\* Manager, and the runtime it created is closed; otherwise it returns a
\* Manager, no error, and the runtime is open.
C25_FailedConstruction ==
    (px.fn = "NewManager" /\ px.done) =>
        IF LoadFails(px.in)
        THEN /\ px.out.err # "nil"
             /\ px.out.manager = NoManager
             /\ px.out.rt = "closed"
        ELSE /\ px.out.err = "nil"
             /\ px.out.manager.present
             /\ px.out.rt = "open"

\* Only the last function looked up is missing.
C25_Witness ==
    /\ px.fn = "NewManager"
    /\ px.done
    /\ px.in.compile
    /\ px.in.instantiate
    /\ px.in.exports = { "cdx", "rdx", "bdx", "ndx" }
    /\ px.out.err = << "init wasm parser", "export not found", "mdx" >>
    /\ px.out.manager = NoManager
    /\ px.out.rt = "closed"

\* The positions of the log whose entry is of the kind tag.
LogAt(log, tag) == { i \in 1..Len(log) : log[i][1] = tag }

ApiDone == px.fn = "apiRequest" /\ px.done

\* C26, as stated: for one apiRequest ForceUpdate is called at most once,
\* the request is sent again exactly once after it, and a 401 on the
\* request sent again ends the operation with an error and no further
\* ForceUpdate.
C26_AsStated ==
    ApiDone =>
        LET log   == px.out.st.log
            fus   == LogAt(log, "ForceUpdate")
            sends == LogAt(log, "send")
        IN  /\ Cardinality(fus) <= 1
            /\ \A f \in fus :
                   Cardinality({ i \in sends : i > f }) = 1
            /\ \A f \in fus : \A i \in sends :
                   (i > f /\ log[i][2] = StatusUnauthorized)
                   => /\ px.out.err # "nil"
                      /\ \A g \in fus : g < i

\* C26: for one apiRequest ForceUpdate is called at most once, and only
\* after a 401 on the first send; the request is sent at most twice, the
\* second time only after the ForceUpdate; it is sent again exactly once
\* when ForceUpdate and the AccessToken call after it succeed, and not at
\* all when one of them fails, which ends the operation with that error;
\* a 401 on the request sent again ends the operation with the error of
\* the status and no further ForceUpdate.
C26_OneRefresh ==
    ApiDone =>
        LET log   == px.out.st.log
            fus   == LogAt(log, "ForceUpdate")
            sends == LogAt(log, "send")
        IN  /\ Cardinality(fus) <= 1
            /\ Cardinality(sends) <= 2
            /\ \A f \in fus :
                   /\ \E i \in sends :
                          /\ i < f
                          /\ log[i][2] = StatusUnauthorized
                          /\ \A j \in sends : j < f => j = i
                   /\ Cardinality({ i \in sends : i > f }) <= 1
                   /\ { i \in sends : i > f } = { }
                      => px.out.err \in { << "failed to refresh token" >>,
                                          << "failed to get access token" >> }
            /\ Cardinality(sends) = 2 => Cardinality(fus) = 1
            /\ \A f \in fus : \A i \in sends :
                   (i > f /\ log[i][2] = StatusUnauthorized)
                   => /\ px.out.err = MapHTTPStatusToError(StatusUnauthorized)
                      /\ \A g \in fus : g < i

\* The server answers 401 to the request and to the request sent again.
C26_Witness ==
    /\ ApiDone
    /\ px.in.st.api[1].status = StatusUnauthorized
    /\ px.in.st.api[2].status = StatusUnauthorized
    /\ px.in.st.api[3].status = StatusUnauthorized
    /\ Cardinality(LogAt(px.out.st.log, "ForceUpdate")) = 1
    /\ Cardinality(LogAt(px.out.st.log, "send")) = 2
    /\ px.out.err = MapHTTPStatusToError(StatusUnauthorized)

SectorDone == px.fn = "GetSectorScrips" /\ px.done

\* C27, as stated: GetSectorScrips makes the security-list request and no
\* request per security, for any security list.
C27_AsStated ==
    SectorDone => px.out.requests = << << "security_list" >> >>

\* The wait the backoff rule gives before retry k: RetryDelay * 2^(k-1),
\* at most 30 s.
ClaimedWait(retryDelay, k) ==
    LET d == ShiftLeft(retryDelay, k - 1)
    IN  IF d.lost \/ ~Less(d.val, Seconds(MaxDelaySeconds))
        THEN Seconds(MaxDelaySeconds)
        ELSE d.val

\* An answer doRequest retries after, and one it returns.
Retried(opts, o) ==
    o.status = 0 \/ (RetryCandidate(o.status) /\ IsRetryable(opts, o.status))

Returned(o) == o.status # 0 /\ ~RetryCandidate(o.status)

DoRequestDone == px.fn = "doRequest" /\ px.done

\* C28, as stated: doRequest makes at most MaxRetries + 1 attempts, waits
\* min(RetryDelay * 2^(k-1), 30 s) before retry k, retries only after a
\* transport error or a retryable 5xx / 429, and returns the first
\* response below 500 and not 429 without a further attempt.
C28_AsStated ==
    DoRequestDone =>
        LET o    == px.out
            opts == px.in.opts
            n    == o.attempts
        IN  /\ n <= opts.MaxRetries + 1
            /\ Len(o.waits) = n - 1
            /\ \A k \in 1..(n - 1) :
                   o.waits[k] = ClaimedWait(opts.RetryDelay, k)
            /\ \A j \in 1..(n - 1) : Retried(opts, OutcomeAt(px.in.rs, j))
            /\ o.err = "nil" <=> Returned(OutcomeAt(px.in.rs, n))
            /\ o.err = "nil" => o.status = OutcomeAt(px.in.rs, n).status
            /\ n < opts.MaxRetries + 1
                   => ~Retried(opts, OutcomeAt(px.in.rs, n))

\* C31, as stated: when the first send of an apiRequest is answered 401 and
\* ForceUpdate returns nil, a bundle is fetched between the 401 and the
\* request sent again, so that the token sent again is not the cached one
\* that was rejected.
C31_AsStated ==
    ApiDone =>
        LET log   == px.out.st.log
            fus   == LogAt(log, "ForceUpdate")
            sends == LogAt(log, "send")
        IN  \A f \in fus : \A i \in sends :
                i > f => \E g \in LogAt(log, "GetTokens") : f < g /\ g < i

MainDone == px.fn = "main.apiRequest" /\ px.done

\* C32, as stated: one apiRequest of the example client sends at most two
\* requests and calls ForceUpdate at most once, whatever the server
\* answers.
C32_AsStated ==
    MainDone =>
        /\ Cardinality(LogAt(px.out.st.log, "send")) <= 2
        /\ Cardinality(LogAt(px.out.st.log, "ForceUpdate")) <= 1

\* A doRequest whose context was cancelled during an attempt it made.
CancelledDuring ==
    /\ px.fn = "doRequest.ctx"
    /\ px.done
    /\ px.in.cancelAt # 0
    /\ px.out.attempts >= px.in.cancelAt

\* C33, as stated: once the request's context is cancelled doRequest
\* starts no further backoff sleep and no further attempt, and returns an
\* error.
C33_AsStated ==
    CancelledDuring =>
        /\ px.out.attempts = px.in.cancelAt
        /\ Len(px.out.waits) = px.in.cancelAt - 1
        /\ px.out.err # "nil"

\* The positions of the log at which an update that ForceUpdate made by a
\* fetch has returned nil and the next AccessToken call starts, no time
\* having passed.
AfterFetchedUpdate(log) ==
    { i \in 3..Len(log) : /\ log[i] = << "AccessToken" >>
                          /\ log[i - 1] = << "GetTokens" >>
                          /\ log[i - 2] = << "ForceUpdate" >> }

\* C34, as stated: an AccessToken call made right after an update that
\* stored a bundle (the access token of every bundle here is not empty)
\* causes no further GetTokens call, whatever the server time of the bundle, a server clock
\* 45 s behind the local clock included.
C34_AsStated ==
    ApiDone =>
        \A i \in AfterFetchedUpdate(px.out.st.log) :
            i + 1 <= Len(px.out.st.log)
            => px.out.st.log[i + 1] # << "GetTokens" >>

StoredCycles == { c \in 1..Len(calls) : calls[c].stored }

\* C36: the Manager never calls the collaborator's RefreshTokens; every
\* update cycle that stores a bundle, the first one as well as a later one
\* made while a refresh token is stored, made one fetch, and that fetch was
\* a GetTokens call.
C36_OnlyGetTokens ==
    /\ hist.refreshTokensCalls = 0
    /\ \A c \in StoredCycles : calls[c].fetches = 1
    /\ Cardinality(StoredCycles) <= hist.getTokensCalls

\* A second update cycle stored its bundle on a Manager that held the
\* refresh token of the first.
C36_Witness ==
    /\ ~hist.cold
    /\ hist.raw.RefreshToken # << >>
    /\ StoredCycles = { 1, 2 }
    /\ hist.getTokensCalls = 2
    /\ hist.refreshTokensCalls = 0

\* C37, as stated: no exported function is called on a released runtime;
\* a step in which a caller's update runs parseResponse, and with it the
\* index derivation, is taken only while the runtime is open.
C37_AsStated ==
    [][(\E p \in Procs : ParseResponse(p)) => px.out.rt = "open"]_vars

\* C38, as stated: for every MaxRetries, zero and negative included,
\* doRequest returns either a response (status 0 stands for none) and a
\* nil error, or no response and an error.
C38_AsStated ==
    (px.fn = "doRequest.ctx" /\ px.done) =>
        \/ px.out.status # 0 /\ px.out.err = "nil"
        \/ px.out.status = 0 /\ px.out.err # "nil"

====
